---- MODULE Spec2Model ----
(***************************************************************************)
(* State-machine model of py-icc-worker: the polymorphic image processor   *)
(* (processor/opencv_processor.py), the declarative step dispatch          *)
(* (core/pipeline_builder.py), the pipeline runner                         *)
(* (core/pipeline_runner.py) and the array-math step functions of main.py  *)
(* and cmyk.py.                                                            *)
(*                                                                         *)
(* numpy arrays live in a heap and processors hold views into it, so that  *)
(* aliasing (a slice is a view, .copy() is a fresh array, an indexed       *)
(* assignment writes through the view) is part of the model.               *)
(***************************************************************************)
EXTENDS Integers, Sequences, FiniteSets, TLC

VARIABLES
    fs,        \* the files on disk: path -> [exists, mode, icc, arr]
    config,    \* config.json: the "partials" list
    debug,     \* run_multi_pipeline's debug argument
    heap,      \* the numpy arrays allocated so far
    base,      \* the source processor (ProcessorClass.load)
    canvas,    \* load_layout's canvas processor
    layout,    \* load_layout's layout processor
    proc,      \* the clone the current partial works on
    pipeline,  \* the PartialPipeline built by from_json for the current partial
    partial_processors, \* the finished (proc, location) pairs
    pc,        \* where run_multi_pipeline is
    pidx,      \* index of the current partial in config
    sidx,      \* index of the next step of the current pipeline
    cidx,      \* index of the next piece to composite
    err,       \* the exception that ended the run ("none" while running)
    loaded,    \* history: the array load produced
    execLog,   \* history: per partial, the commands that have been executed
    opCount,   \* number of processor calls made so far (object-level specification)
    lastOp,    \* history: the last processor call and whether it raised
    snapB,     \* history: the content of `base` after the last call made on it
    snapC,     \* history: the content of `proc` after the last call made on it
    call       \* the last call of a pure step function: its arguments and result

vars == <<fs, config, debug, heap, base, canvas, layout, proc, pipeline,
          partial_processors, pc, pidx, sidx, cidx, err, loaded, execLog,
          opCount, lastOp, snapB, snapC, call>>

runnerVars == <<fs, config, debug, heap, base, canvas, layout, proc, pipeline,
                partial_processors, pc, pidx, sidx, cidx, err, loaded, execLog>>

opsVars == <<opCount, lastOp, snapB, snapC>>

-----------------------------------------------------------------------------
(* Bounds of the model.                                                    *)

\* number of partials in config.json
MaxPartials == 2
\* width and height of the source image and of the mask images
SrcDim == 2
\* width and height of the layout image (and so of the canvas)
LayoutDim == 3
\* number of processor calls in the object-level specification
MaxOps == 3
\* largest buffer side in the crop calls of the pure-function specification
MaxDim == 2
\* most samples the resource monitor takes in one run
MaxSamples == 2

\* 8-bit unsigned sample depth: np.clip(..., 0, 255), / 255.0
MaxSample == 255

Min(a, b) == IF a < b THEN a ELSE b
Max(a, b) == IF a > b THEN a ELSE b

-----------------------------------------------------------------------------
(* numpy arrays of shape (h, w, c), dtype uint8.                           *)

Range(n) == 1..n

\* An array is [h, w, c, px]; px[y, x] is the pixel, a sequence of c samples,
\* rows and columns counted from 1.
MkArray(h, w, c, F(_, _)) ==
    [h |-> h, w |-> w, c |-> c, px |-> [y \in Range(h), x \in Range(w) |-> F(y, x)]]

\* the last channel is the alpha channel: image[:, :, -1]
Alpha(p) == p[Len(p)]

\* image[:, :, :-1]
Colour(p) == SubSeq(p, 1, Len(p) - 1)

\* p with its last sample replaced by a
WithAlpha(p, a) == [p EXCEPT ![Len(p)] = a]

\* np.zeros((h, w, c), dtype=np.uint8)
Zeros(h, w, c) == MkArray(h, w, c, LAMBDA y, x : [k \in 1..c |-> 0])

\* a bound that wraps a negative index but is not cut at the axis' ends
SliceBoundUnclamped(i, n) == IF i < 0 THEN i + n ELSE i

\* Python's normalisation of a slice bound i on an axis of length n
SliceBound(i, n) == IF i < 0 THEN Max(i + n, 0) ELSE Min(i, n)

\* seq[start:stop] on an axis of length n: [first index (0-based), length]
SliceOf(start, stop, n) ==
    LET s == SliceBound(start, n)
        e == SliceBound(stop, n)
    IN  [off |-> s, len |-> Max(0, e - s)]

\* A view is a window [buf, y0, x0, h, w] into heap[buf]: basic slicing of an
\* array yields a view of the same memory.
WholeView(b, a) == [buf |-> b, y0 |-> 0, x0 |-> 0, h |-> a.h, w |-> a.w]

\* the array a view shows
Deref(hp, v) ==
    MkArray(v.h, v.w, hp[v.buf].c, LAMBDA y, x : hp[v.buf].px[v.y0 + y, v.x0 + x])

\* view[y1:y2, x1:x2]
SliceView(v, y1, y2, x1, x2) ==
    LET ys == SliceOf(y1, y2, v.h)
        xs == SliceOf(x1, x2, v.w)
    IN  [buf |-> v.buf, y0 |-> v.y0 + ys.off, x0 |-> v.x0 + xs.off,
         h |-> ys.len, w |-> xs.len]

\* view[...] = a (shapes equal): the write goes through to the heap
WriteThrough(hp, v, a) ==
    [hp EXCEPT ![v.buf].px =
        [q \in DOMAIN hp[v.buf].px |->
            IF /\ q[1] - v.y0 \in Range(v.h)
               /\ q[2] - v.x0 \in Range(v.w)
            THEN a.px[q[1] - v.y0, q[2] - v.x0]
            ELSE hp[v.buf].px[q]]]

\* a new array on the heap
Alloc(hp, a) == Append(hp, a)

-----------------------------------------------------------------------------
(* Processors.                                                             *)

NoView == [buf |-> 0, y0 |-> 0, x0 |-> 0, h |-> 0, w |-> 0]
NoProc == [image |-> NoView, icc_profile |-> "", mode |-> ""]

\* OpenCVProcessor.__init__
Processor(image, icc_profile, mode) ==
    [image |-> image, icc_profile |-> icc_profile, mode |-> mode]

Exists(p) == p.image.buf # 0

\* what a processor shows: its pixels, dimensions, channel count, mode, profile
Content(hp, p) ==
    [arr |-> Deref(hp, p.image), mode |-> p.mode, icc_profile |-> p.icc_profile]

NoContent == [arr |-> Zeros(0, 0, 0), mode |-> "", icc_profile |-> ""]

\* the result of a processor call: the heap and the processor after it, the
\* exception it raised ("none" when it returned) and what it returned: the
\* processor in `self` ("processor") or None
Ok(hp, p) == [heap |-> hp, self |-> p, err |-> "none", ret |-> "processor"]
Raise(hp, p, e) == [heap |-> hp, self |-> p, err |-> e, ret |-> "raised"]

\* a method that ends without a return statement returns None
ReturnsNone(r) == [r EXCEPT !.ret = "None"]

-----------------------------------------------------------------------------
(* Files.  A path is a sequence of components; os.path.join appends.       *)

\* os.path.join(a, b)
JoinPath(a, b) == a \o b

AssetDir == <<"L">>
InputPath == <<"input.tif">>
LayoutPath == JoinPath(AssetDir, <<"layout.png">>)
MaskPath == JoinPath(AssetDir, <<"m1.png">>)
FullMaskPath == JoinPath(AssetDir, <<"full.png">>)
MissingMaskPath == JoinPath(AssetDir, <<"missing.png">>)
ClearMaskPath == JoinPath(AssetDir, <<"clear.png">>)
Paths == {InputPath, LayoutPath, MaskPath, FullMaskPath, MissingMaskPath, ClearMaskPath}

NoFile == [exists |-> FALSE, mode |-> "", icc |-> "", arr |-> Zeros(0, 0, 0)]
ImageFile(mode, icc, arr) == [exists |-> TRUE, mode |-> mode, icc |-> icc, arr |-> arr]

\* a sample value that the model does not determine: the output of a
\* resampling kernel (Lanczos) whose coefficients are the library's
Interpolated == 0 - 1

\* Image.convert("RGBA") of an RGBA or RGB image: RGB gets alpha 255
ConvertRGBA(f) ==
    IF f.mode = "RGBA" THEN f.arr
    ELSE MkArray(f.arr.h, f.arr.w, 4,
                 LAMBDA y, x : SubSeq(f.arr.px[y, x], 1, 3) \o <<MaxSample>>)

\* Image.convert("CMYK") of an RGBA image: C, M, Y = 255 - R, G, B and K = 0
ConvertCMYK(a) ==
    MkArray(a.h, a.w, 4,
            LAMBDA y, x : <<MaxSample - a.px[y, x][1], MaxSample - a.px[y, x][2],
                            MaxSample - a.px[y, x][3], 0>>)

-----------------------------------------------------------------------------
(* OpenCVProcessor.                                                        *)

ALLOWED_MODES == {"CMYK", "RGBA", "RGB"}

\* a load that turns a mode outside the allow-list into RGBA
LoadCoercing(hp, files, path) ==
    IF ~(path \in DOMAIN files /\ files[path].exists)
    THEN Raise(hp, NoProc, "FileNotFoundError")
    ELSE LET f == files[path]
             np_img == MkArray(f.arr.h, f.arr.w, 4,
                           LAMBDA y, x : <<f.arr.px[y, x][1], f.arr.px[y, x][1],
                                           f.arr.px[y, x][1], MaxSample>>)
             hp2 == Alloc(hp, np_img)
         IN  Ok(hp2, Processor(WholeView(Len(hp2), np_img), f.icc, "RGBA"))

\* OpenCVProcessor.load: [heap, self, err]
Load(hp, files, path) ==
    IF ~(path \in DOMAIN files /\ files[path].exists)
    THEN Raise(hp, NoProc, "FileNotFoundError")
    ELSE LET f == files[path] IN
         IF f.mode \notin ALLOWED_MODES
         THEN Raise(hp, NoProc, "ValueError")
         ELSE LET np_img ==
                    IF f.mode \in {"CMYK", "RGB"}
                    THEN MkArray(f.arr.h, f.arr.w, f.arr.c + 1,
                                 LAMBDA y, x : f.arr.px[y, x] \o <<MaxSample>>)
                    ELSE f.arr
                  mode == IF f.mode = "CMYK" THEN "CMYKA" ELSE "RGBA"
                  hp2 == Alloc(hp, np_img)
              IN  Ok(hp2, Processor(WholeView(Len(hp2), np_img), f.icc, mode))

\* a clone that shares the pixel array instead of copying it
CloneAliased(hp, p) == Ok(hp, Processor(p.image, p.icc_profile, p.mode))

\* a clone that copies the pixels but not the profile
CloneUntagged(hp, p) ==
    LET a == Deref(hp, p.image)
        hp2 == Alloc(hp, a)
    IN  Ok(hp2, Processor(WholeView(Len(hp2), a), "", p.mode))

\* OpenCVProcessor.clone: self.image.copy() is a new array
Clone(hp, p) ==
    LET a == Deref(hp, p.image)
        hp2 == Alloc(hp, a)
    IN  Ok(hp2, Processor(WholeView(Len(hp2), a), p.icc_profile, p.mode))

\* the subtraction left in uint8, where it wraps
EraseAlphaWrap(alpha, mask_alpha) == (alpha - mask_alpha) % (MaxSample + 1)

\* np.clip(alpha - mask_alpha, 0, 255) on int16
EraseAlpha(alpha, mask_alpha) == Max(0, Min(MaxSample, alpha - mask_alpha))

\* np.array(Image.open(mask_path).convert("RGBA"))[:, :, 3]
MaskAlphaOf(f) ==
    LET a == ConvertRGBA(f) IN [h |-> a.h, w |-> a.w,
                                a |-> [q \in DOMAIN a.px |-> Alpha(a.px[q])]]

\* numpy broadcasting of an axis of length m onto an axis of length n, the
\* result being assigned to an axis of length n
BroadcastsTo(m, n) == m = n \/ m = 1

\* OpenCVProcessor.erase_by_mask
EraseByMask(hp, p, files, mask_path) ==
    IF ~(mask_path \in DOMAIN files /\ files[mask_path].exists)
    THEN Raise(hp, p, "FileNotFoundError")
    ELSE LET m == MaskAlphaOf(files[mask_path])
             v == p.image
             cur == Deref(hp, v)
         IN  IF ~(BroadcastsTo(m.h, v.h) /\ BroadcastsTo(m.w, v.w))
             THEN Raise(hp, p, "ValueError")
             ELSE LET new ==
                        MkArray(v.h, v.w, cur.c,
                            LAMBDA y, x :
                                WithAlpha(cur.px[y, x],
                                    EraseAlpha(Alpha(cur.px[y, x]),
                                        m.a[IF m.h = 1 THEN 1 ELSE y,
                                            IF m.w = 1 THEN 1 ELSE x])))
                  IN  Ok(WriteThrough(hp, v, new), p)

\* cv2.resize(alpha, (width, height), interpolation=cv2.INTER_NEAREST):
\* the source index of destination index d (both 0-based)
NearestIndex(d, src, dst) == Min((d * src) \div dst, src - 1)

\* cv2.resize(channels, (width, height), interpolation=cv2.INTER_LANCZOS4):
\* a copy when the size is kept, a resampled plane otherwise
Lanczos4(a, y, x, width, height) ==
    IF width = a.w /\ height = a.h
    THEN Colour(a.px[y, x])
    ELSE [k \in 1..(a.c - 1) |-> Interpolated]

\* a resize that stacks the colour planes only
ResizeColourOnly(hp, p, width, height) ==
    LET cur == Deref(hp, p.image) IN
    IF cur.h = 0 \/ cur.w = 0 \/ width <= 0 \/ height <= 0
    THEN Raise(hp, p, "cv2.error")
    ELSE LET new == MkArray(height, width, cur.c - 1,
                        LAMBDA y, x : Lanczos4(cur, y, x, width, height))
             hp2 == Alloc(hp, new)
         IN  Ok(hp2, [p EXCEPT !.image = WholeView(Len(hp2), new)])

\* OpenCVProcessor.resize
Resize(hp, p, width, height) ==
    LET cur == Deref(hp, p.image) IN
    IF cur.h = 0 \/ cur.w = 0 \/ width <= 0 \/ height <= 0
    THEN Raise(hp, p, "cv2.error")
    ELSE LET new ==
               MkArray(height, width, cur.c,
                   LAMBDA y, x :
                       Lanczos4(cur, y, x, width, height)
                       \o <<Alpha(cur.px[NearestIndex(y - 1, cur.h, height) + 1,
                                         NearestIndex(x - 1, cur.w, width) + 1])>>)
             hp2 == Alloc(hp, new)
         IN  Ok(hp2, [p EXCEPT !.image = WholeView(Len(hp2), new)])

\* cv2.INTER_LINEAR in cv2.resize: destination index d (0-based) reads the
\* source position (d + 0.5) * src / dst - 0.5, kept inside the axis: the
\* lower tap i and the weight f / D of the tap after it
LinearTap(d, src, dst) ==
    LET N == (2 * d + 1) * src - dst
        D == 2 * dst
    IN  IF N < 0 THEN [i |-> 0, f |-> 0, D |-> D]
        ELSE IF N \div D >= src - 1 THEN [i |-> src - 1, f |-> 0, D |-> D]
        ELSE [i |-> N \div D, f |-> N % D, D |-> D]

\* sample k of the destination pixel (y, x) (0-based) of cv2.resize(a, (width,
\* height)): the weighted mean of the four taps, rounded
LinearSample(a, k, y, x, width, height) ==
    LET ty == LinearTap(y, a.h, height)
        tx == LinearTap(x, a.w, width)
        v(dy, dx) == a.px[ty.i + dy + 1, tx.i + dx + 1][k]
        row(dy) == (tx.D - tx.f) * v(dy, 0) + (IF tx.f = 0 THEN 0 ELSE tx.f * v(dy, 1))
        total == (ty.D - ty.f) * row(0) + (IF ty.f = 0 THEN 0 ELSE ty.f * row(1))
    IN  (2 * total + ty.D * tx.D) \div (2 * ty.D * tx.D)

\* main.py resize_image: cv2.resize(image, (width, height)), the default
\* INTER_LINEAR on every channel, the alpha channel included
ResizeImage(hp, p, width, height) ==
    LET cur == Deref(hp, p.image) IN
    IF cur.h = 0 \/ cur.w = 0 \/ width <= 0 \/ height <= 0
    THEN Raise(hp, p, "cv2.error")
    ELSE LET new ==
               MkArray(height, width, cur.c,
                   LAMBDA y, x :
                       [k \in 1..cur.c |->
                           LinearSample(cur, k, y - 1, x - 1, width, height)])
             hp2 == Alloc(hp, new)
         IN  Ok(hp2, [p EXCEPT !.image = WholeView(Len(hp2), new)])

\* cos and sin of an angle in degrees that is a multiple of 90
CosDeg(t) == CASE t % 360 = 0 -> 1 [] t % 360 = 180 -> 0 - 1 [] OTHER -> 0
SinDeg(t) == CASE t % 360 = 90 -> 1 [] t % 360 = 270 -> 0 - 1 [] OTHER -> 0
Abs(n) == IF n < 0 THEN 0 - n ELSE n

\* borderMode=cv2.BORDER_CONSTANT, borderValue=0: sample k of the source
\* pixel at row yy, column xx (0-based), 0 outside the source
Tap(a, k, yy, xx) ==
    IF yy \in 0..(a.h - 1) /\ xx \in 0..(a.w - 1) THEN a.px[yy + 1, xx + 1][k] ELSE 0

\* cv2.INTER_LINEAR at the source position (X2 / 2, Y2 / 2): the position is
\* a whole or a half pixel, the weights are quarters, the sum is rounded
Bilinear(a, k, Y2, X2) ==
    LET sy == Y2 \div 2
        sx == X2 \div 2
        fy == Y2 % 2
        fx == X2 % 2
        taps == {<<i, j>> \in {0, 1} \X {0, 1} :
                    (IF i = 0 THEN 2 - fy ELSE fy) * (IF j = 0 THEN 2 - fx ELSE fx) > 0}
        w(q) == (IF q[1] = 0 THEN 2 - fy ELSE fy) * (IF q[2] = 0 THEN 2 - fx ELSE fx)
        v(q) == Tap(a, k, sy + q[1], sx + q[2])
        Sum[S \in SUBSET taps] ==
            IF S = {} THEN 0
            ELSE LET q == CHOOSE r \in S : TRUE IN w(q) * v(q) + Sum[S \ {q}]
    IN  IF \E q \in taps : v(q) = Interpolated THEN Interpolated
        ELSE (Sum[taps] + 2) \div 4

\* OpenCVProcessor.rotate for a multiple of 90 degrees (the method sets
\* self.image and has no return statement):
\* M = cv2.getRotationMatrix2D((w / 2, h / 2), -angle, 1.0), the canvas grown to
\* (new_w, new_h), M's translation moved by the half difference, and every
\* channel warped by cv2.warpAffine (which maps each destination pixel back
\* through the inverse of M).  Coordinates are kept doubled.
Rotate(hp, p, angle) ==
    LET cur == Deref(hp, p.image)
        h == cur.h
        w == cur.w
        al == CosDeg(0 - angle)
        be == SinDeg(0 - angle)
        new_w == h * Abs(be) + w * Abs(al)
        new_h == h * Abs(al) + w * Abs(be)
        tx2 == (1 - al) * w - be * h + new_w - w
        ty2 == be * w + (1 - al) * h + new_h - h
        SX2(dy, dx) == al * (2 * dx - tx2) - be * (2 * dy - ty2)
        SY2(dy, dx) == be * (2 * dx - tx2) + al * (2 * dy - ty2)
    IN  IF h = 0 \/ w = 0 THEN Raise(hp, p, "cv2.error")
        ELSE LET rotated ==
                   MkArray(new_h, new_w, cur.c,
                       LAMBDA y, x :
                           [k \in 1..cur.c |->
                               Bilinear(cur, k, SY2(y - 1, x - 1), SX2(y - 1, x - 1))])
                 hp2 == Alloc(hp, rotated)
             IN  ReturnsNone(Ok(hp2, [p EXCEPT !.image = WholeView(Len(hp2), rotated)]))

\* cv2.warpAffine(image, M, (new_w, new_h)) with INTER_LINEAR and a zero
\* border, for M = [[al, be, tx], [-be, al, ty]] (translation doubled): each
\* destination pixel is read back through the inverse of M
WarpAffine(cur, new_h, new_w, al, be, tx2, ty2) ==
    MkArray(new_h, new_w, cur.c,
        LAMBDA y, x :
            [k \in 1..cur.c |->
                Bilinear(cur, k,
                    be * (2 * (x - 1) - tx2) + al * (2 * (y - 1) - ty2),
                    al * (2 * (x - 1) - tx2) - be * (2 * (y - 1) - ty2))])

\* main.py rotate_image for a multiple of 90 degrees: the image itself for
\* angle 0; otherwise M = cv2.getRotationMatrix2D((w // 2, h // 2), angle, 1.0),
\* the canvas grown to (new_w, new_h) and M's translation moved by
\* new_w / 2 - center[0], new_h / 2 - center[1]
RotateImage(hp, p, angle) ==
    LET cur == Deref(hp, p.image)
        h == cur.h
        w == cur.w
        cx2 == 2 * (w \div 2)
        cy2 == 2 * (h \div 2)
        al == CosDeg(angle)
        be == SinDeg(angle)
        new_w == h * Abs(be) + w * Abs(al)
        new_h == h * Abs(al) + w * Abs(be)
        tx2 == (1 - al) * cx2 - be * cy2 + new_w - cx2
        ty2 == be * cx2 + (1 - al) * cy2 + new_h - cy2
    IN  IF angle = 0 THEN Ok(hp, p)
        ELSE IF h = 0 \/ w = 0 THEN Raise(hp, p, "cv2.error")
        ELSE LET rotated == WarpAffine(cur, new_h, new_w, al, be, tx2, ty2)
                 hp2 == Alloc(hp, rotated)
             IN  Ok(hp2, [p EXCEPT !.image = WholeView(Len(hp2), rotated)])

\* cmyk.py rotate_img for a multiple of 90 degrees:
\* M = cv2.getRotationMatrix2D((w // 2, h // 2), angle, 1.0) and
\* cv2.warpAffine(np_img, M, (w, h)): the frame keeps its size
RotateImg(hp, p, angle) ==
    LET cur == Deref(hp, p.image)
        h == cur.h
        w == cur.w
        cx2 == 2 * (w \div 2)
        cy2 == 2 * (h \div 2)
        al == CosDeg(angle)
        be == SinDeg(angle)
        tx2 == (1 - al) * cx2 - be * cy2
        ty2 == be * cx2 + (1 - al) * cy2
    IN  IF h = 0 \/ w = 0 THEN Raise(hp, p, "cv2.error")
        ELSE LET rotated == WarpAffine(cur, h, w, al, be, tx2, ty2)
                 hp2 == Alloc(hp, rotated)
             IN  Ok(hp2, [p EXCEPT !.image = WholeView(Len(hp2), rotated)])

\* OpenCVProcessor.crop with auto=False: self.image[y1:y2, x1:x2], a view
Crop(hp, p, left, top, width, height) ==
    Ok(hp, [p EXCEPT !.image = SliceView(p.image, top, top + height, left, left + width)])

\* OpenCVProcessor.crop with auto=True: ys, xs = np.where(alpha > 0) (1-based
\* here); ys.min() of an empty array raises ValueError; otherwise the view
\* self.image[top:bottom + 1, left:right + 1]
CropAuto(hp, p) ==
    LET cur == Deref(hp, p.image)
        nz == {q \in DOMAIN cur.px : Alpha(cur.px[q]) > 0}
    IN  IF nz = {} THEN Raise(hp, p, "ValueError")
        ELSE LET top == CHOOSE y \in {q[1] : q \in nz} : \A q \in nz : y <= q[1]
                 bottom == CHOOSE y \in {q[1] : q \in nz} : \A q \in nz : y >= q[1]
                 left == CHOOSE x \in {q[2] : q \in nz} : \A q \in nz : x <= q[2]
                 right == CHOOSE x \in {q[2] : q \in nz} : \A q \in nz : x >= q[2]
             IN  Ok(hp, [p EXCEPT !.image =
                            SliceView(p.image, top - 1, bottom, left - 1, right)])

\* a composite that copies the piece's rectangle whatever its alpha
CompositeOverwrite(hp, self, other, x, y) ==
    LET o == Deref(hp, other.image)
        tv == SliceView(self.image, y, y + o.h, x, x + o.w)
        target_region == Deref(hp, tv)
    IN  IF ~(/\ o.h = tv.h \/ o.h = 1
             /\ o.w = tv.w \/ o.w = 1
             /\ o.c = target_region.c)
        THEN Raise(hp, self, "ValueError")
        ELSE LET new == MkArray(tv.h, tv.w, o.c, LAMBDA yy, xx : o.px[yy, xx])
             IN  Ok(WriteThrough(hp, tv, new), self)

\* a composite that takes x for the row and y for the column
CompositeTransposed(hp, self, other, x, y) ==
    LET o == Deref(hp, other.image)
        tv == SliceView(self.image, x, x + o.h, y, y + o.w)
        target_region == Deref(hp, tv)
    IN  IF ~(/\ o.h = tv.h \/ o.h = 1
             /\ o.w = tv.w \/ o.w = 1
             /\ o.c = target_region.c)
        THEN Raise(hp, self, "ValueError")
        ELSE LET new ==
                   MkArray(tv.h, tv.w, o.c,
                       LAMBDA yy, xx :
                           IF Alpha(o.px[yy, xx]) > 0
                           THEN o.px[yy, xx]
                           ELSE target_region.px[yy, xx])
             IN  Ok(WriteThrough(hp, tv, new), self)

\* OpenCVProcessor.composite
Composite(hp, self, other, x, y) ==
    LET o == Deref(hp, other.image)
        tv == SliceView(self.image, y, y + o.h, x, x + o.w)
        target_region == Deref(hp, tv)
    IN  IF ~(/\ o.h = tv.h \/ o.h = 1
             /\ o.w = tv.w \/ o.w = 1
             /\ o.c = target_region.c)
        THEN Raise(hp, self, "ValueError")
        ELSE LET new ==
                   MkArray(tv.h, tv.w, o.c,
                       LAMBDA yy, xx :
                           IF Alpha(o.px[yy, xx]) > 0
                           THEN o.px[yy, xx]
                           ELSE target_region.px[yy, xx])
             IN  Ok(WriteThrough(hp, tv, new), self)

\* no file handed to the encoder
NoWritten == [arr |-> Zeros(0, 0, 0), icc |-> "", colorspace |-> ""]

\* OpenCVProcessor.save: what import_pixels and img.profiles['icc'] hand to the
\* encoder: channels.tobytes() and alpha.tobytes() as they are in the buffer
SaveData(hp, p) ==
    [arr |-> Deref(hp, p.image),
     icc |-> p.icc_profile,
     colorspace |-> IF p.mode = "CMYKA" THEN "cmyk" ELSE "rgb"]

\* OpenCVProcessor.save: img.profiles['icc'] takes bytes only, so a processor
\* without a profile (icc_profile None) raises TypeError; the method has no
\* return statement
Save(hp, p, path) ==
    IF p.icc_profile = "" THEN Raise(hp, p, "TypeError")
    ELSE ReturnsNone(Ok(hp, p))

\* a load_layout that takes the RGBA branch whatever the processor's mode
LoadLayoutRGBA(hp, p, files, path) ==
    IF ~(path \in DOMAIN files /\ files[path].exists)
    THEN [heap |-> hp, canvas |-> NoProc, layout |-> NoProc, err |-> "FileNotFoundError"]
    ELSE LET np_layout == ConvertRGBA(files[path])
             np_canvas == Zeros(np_layout.h, np_layout.w, 4)
             hp2 == Alloc(Alloc(hp, np_canvas), np_layout)
         IN  [heap |-> hp2,
              canvas |-> Processor(WholeView(Len(hp2) - 1, np_canvas), p.icc_profile, p.mode),
              layout |-> Processor(WholeView(Len(hp2), np_layout), p.icc_profile, p.mode),
              err |-> "none"]

\* OpenCVProcessor.load_layout: [heap, canvas, layout, err]
LoadLayout(hp, p, files, path) ==
    IF ~(path \in DOMAIN files /\ files[path].exists)
    THEN [heap |-> hp, canvas |-> NoProc, layout |-> NoProc, err |-> "FileNotFoundError"]
    ELSE LET input_image == ConvertRGBA(files[path])
             np_layout ==
                 IF p.mode = "CMYKA"
                 THEN LET cmyk == ConvertCMYK(input_image) IN
                      MkArray(cmyk.h, cmyk.w, 5,
                          LAMBDA y, x : cmyk.px[y, x] \o <<Alpha(input_image.px[y, x])>>)
                 ELSE input_image
             np_canvas == Zeros(np_layout.h, np_layout.w, IF p.mode = "CMYKA" THEN 5 ELSE 4)
             hp2 == Alloc(Alloc(hp, np_canvas), np_layout)
         IN  [heap |-> hp2,
              canvas |-> Processor(WholeView(Len(hp2) - 1, np_canvas), p.icc_profile, p.mode),
              layout |-> Processor(WholeView(Len(hp2), np_layout), p.icc_profile, p.mode),
              err |-> "none"]

-----------------------------------------------------------------------------
(* Step commands (core/pipeline_builder.py).                               *)

\* A step's "data": a string (kind "str"), a number ("num"), or a dict with
\* the keys top/left/width/height ("rect"), width/height ("size") or none
\* ("empty").  The fields a kind does not have are 0 / <<>>.
Data(kind, path, top, left, width, height, angle) ==
    [kind |-> kind, path |-> path, top |-> top, left |-> left,
     width |-> width, height |-> height, angle |-> angle]
StrData(name) == Data("str", <<name>>, 0, 0, 0, 0, 0)
NumData(n) == Data("num", <<>>, 0, 0, 0, 0, n)
RectData(top, left, width, height) == Data("rect", <<>>, top, left, width, height, 0)
SizeData(width, height) == Data("size", <<>>, 0, 0, width, height, 0)
EmptyData == Data("empty", <<>>, 0, 0, 0, 0, 0)

Step(action, data) == [action |-> action, data |-> data]

\* ActionCommand.__init__
ActionCommand(action_type, params) == [action_type |-> action_type, params |-> params]

\* the step vocabulary of the configuration format
Vocabulary == {"mask", "crop", "resize", "rotate"}

\* the attributes hasattr finds on an OpenCVProcessor: its methods and fields
ProcessorMethods == {"load", "clone", "erase_by_mask", "resize", "rotate", "crop",
                     "composite", "save", "load_layout"}
ProcessorFields == {"image", "icc_profile", "mode"}
ProcessorAttrs == ProcessorMethods \cup ProcessorFields

\* isinstance(self.params, dict)
IsDict(params) == params.kind \in {"rect", "size", "empty"}

\* the steps in reverse order
FromJsonStepsReversed(steps, asset_dir) ==
    [k \in 1..Len(steps) |->
        LET st == steps[Len(steps) + 1 - k] IN
        IF st.action = "mask"
        THEN ActionCommand("erase_by_mask",
                           [st.data EXCEPT !.path = JoinPath(asset_dir, st.data.path)])
        ELSE ActionCommand(st.action, st.data)]

\* PartialPipeline.from_json, the loop over partial_json["steps"]
FromJsonSteps(steps, asset_dir) ==
    [k \in 1..Len(steps) |->
        IF steps[k].action = "mask"
        THEN ActionCommand("erase_by_mask",
                           [steps[k].data EXCEPT !.path = JoinPath(asset_dir, steps[k].data.path)])
        ELSE ActionCommand(steps[k].action, steps[k].data)]

\* os.path.join(asset_dir, data) raises TypeError unless data is a string
FromJsonRaises(partial_json) ==
    \E k \in 1..Len(partial_json.steps) :
        partial_json.steps[k].action = "mask" /\ partial_json.steps[k].data.kind # "str"

\* PartialPipeline.from_json
FromJson(partial_json, asset_dir) ==
    [id |-> partial_json.id,
     steps |-> FromJsonSteps(partial_json.steps, asset_dir),
     location |-> partial_json.location]

NoPipeline == [id |-> "", steps |-> <<>>, location |-> [top |-> 0, left |-> 0]]

\* ActionCommand.execute: hasattr, getattr, then method(**params) or
\* method(params); a call that does not fit the method's signature raises
\* TypeError.  The result is [heap, self, err].
Execute(hp, p, files, cmd) ==
    LET a == cmd.action_type
        d == cmd.params
    IN
    IF a \notin ProcessorAttrs THEN Raise(hp, p, "AttributeError")
    ELSE IF a \in ProcessorFields THEN Raise(hp, p, "TypeError")
    ELSE CASE a = "erase_by_mask" ->
                IF d.kind = "str" THEN EraseByMask(hp, p, files, d.path)
                ELSE IF d.kind = "num" THEN Raise(hp, p, "AttributeError")
                ELSE Raise(hp, p, "TypeError")
           [] a = "resize" ->
                IF d.kind = "size" THEN Resize(hp, p, d.width, d.height)
                ELSE Raise(hp, p, "TypeError")
           [] a = "crop" ->
                IF d.kind \in {"rect", "size", "empty"}
                THEN Crop(hp, p, d.left, d.top, d.width, d.height)
                ELSE IF d.kind = "num" THEN Crop(hp, p, d.angle, 0, 0, 0)
                ELSE Raise(hp, p, "TypeError")
           [] a = "rotate" ->
                IF d.kind = "num" THEN Rotate(hp, p, d.angle)
                ELSE Raise(hp, p, "TypeError")
           [] a = "save" ->
                \* the file written is no part of the processor
                IF d.kind = "str" THEN Save(hp, p, d.path)
                ELSE Raise(hp, p, "TypeError")
           [] a = "clone" ->
                \* the copy is returned to the runner, which drops it
                IF d.kind = "empty" THEN Ok(Clone(hp, p).heap, p)
                ELSE Raise(hp, p, "TypeError")
           [] a \in {"load", "load_layout"} ->
                \* the processors they return are dropped
                IF d.kind # "str" THEN Raise(hp, p, "TypeError")
                ELSE IF d.path \in DOMAIN files /\ files[d.path].exists THEN Ok(hp, p)
                ELSE Raise(hp, p, "FileNotFoundError")
           [] OTHER -> Raise(hp, p, "TypeError")

-----------------------------------------------------------------------------
(* The inputs of a run: the files and config.json.                         *)

\* the source images: opaque with distinct colours; with erased pixels
OpaqueSource ==
    MkArray(SrcDim, SrcDim, 4, LAMBDA y, x : <<10 * y + x, 100 + 10 * y + x, 7, MaxSample>>)
TranslucentSource ==
    MkArray(SrcDim, SrcDim, 4,
            LAMBDA y, x : <<10 * y + x, 100 + 10 * y + x, 7,
                            IF y = 1 /\ x = 1 THEN 0
                            ELSE IF y = 1 /\ x = 2 THEN 128 ELSE MaxSample>>)

\* the layout images: fully transparent; with one opaque pixel and one
\* coloured pixel of alpha 0
BlankLayout == Zeros(LayoutDim, LayoutDim, 4)
DecoratedLayout ==
    MkArray(LayoutDim, LayoutDim, 4,
            LAMBDA y, x : IF y = 1 /\ x = 1 THEN <<200, 201, 202, MaxSample>>
                          ELSE IF y = 2 /\ x = 2 THEN <<50, 60, 70, 0>>
                          ELSE <<0, 0, 0, 0>>)

\* the masks: m1.png covers the first pixel fully and the second partly;
\* full.png has no alpha channel, so every pixel of it is covered
PartMask ==
    MkArray(SrcDim, SrcDim, 4,
            LAMBDA y, x : <<0, 0, 0, IF y = 1 /\ x = 1 THEN MaxSample
                                     ELSE IF y = 1 /\ x = 2 THEN 100 ELSE 0>>)
FullMask == MkArray(SrcDim, SrcDim, 3, LAMBDA y, x : <<0, 0, 0>>)
\* clear.png has alpha 0 at every pixel
ClearMask == Zeros(SrcDim, SrcDim, 4)

\* the files of a run whose source file is f and whose layout image is lay
FileSystemOf(f, lay) ==
    [q \in Paths |->
        CASE q = InputPath -> f
          [] q = LayoutPath -> ImageFile("RGBA", "", lay)
          [] q = MaskPath -> ImageFile("RGBA", "", PartMask)
          [] q = FullMaskPath -> ImageFile("RGB", "", FullMask)
          [] q = ClearMaskPath -> ImageFile("RGBA", "", ClearMask)
          [] OTHER -> NoFile]

FileSystem(src, icc, lay) == FileSystemOf(ImageFile("RGBA", icc, src), lay)

FileSystems == {FileSystem(OpaqueSource, "icc-a", BlankLayout),
                FileSystem(TranslucentSource, "icc-b", DecoratedLayout)}

Partial(steps, top, left) ==
    [id |-> "p", steps |-> steps, location |-> [top |-> top, left |-> left]]

\* the partials a configuration is made of: step lists that succeed, that
\* raise, that name a missing mask or an action outside the vocabulary, at
\* locations inside the canvas and above it
PartialJsons ==
    { Partial(<<>>, 0, 0),
      Partial(<<>>, 0 - 2, 0),
      Partial(<<Step("mask", StrData("m1.png"))>>, 0, 0),
      Partial(<<Step("mask", StrData("m1.png"))>>, 1, 1),
      Partial(<<Step("crop", RectData(0, 0, SrcDim, 1))>>, 0 - 2, 0),
      Partial(<<Step("crop", RectData(0, 0, SrcDim, 1))>>, 1, 1),
      Partial(<<Step("mask", StrData("m1.png")), Step("crop", RectData(0, 0, 1, 1))>>, 1, 1),
      Partial(<<Step("crop", RectData(0, 0, 1, 1)), Step("mask", StrData("m1.png"))>>, 0, 0),
      Partial(<<Step("mask", StrData("missing.png")),
                Step("crop", RectData(0, 0, SrcDim, 1))>>, 0, 0),
      Partial(<<Step("clone", EmptyData), Step("mask", StrData("full.png"))>>, 0, 0),
      Partial(<<Step("crop", RectData(0, 1, 1, SrcDim)), Step("flip", NumData(5))>>, 0, 0),
      Partial(<<Step("rotate", NumData(90)), Step("resize", SizeData(1, 2))>>, 1, 1) }

Configs == UNION {[1..n -> PartialJsons] : n \in 0..MaxPartials}

-----------------------------------------------------------------------------
(* run_multi_pipeline (core/pipeline_runner.py).                           *)

NoErr == [type |-> "none", partial |-> 0, step |-> 0]

\* no processor call made yet
NoOp == [op |-> "none", target |-> "", err |-> "none", ret |-> "none",
         before |-> Zeros(0, 0, 0), other |-> Zeros(0, 0, 0), x |-> 0, y |-> 0,
         written |-> NoWritten]

\* the state run_multi_pipeline starts in, whatever the files and config.json
InitRun ==
    /\ heap = <<>>
    /\ base = NoProc
    /\ canvas = NoProc
    /\ layout = NoProc
    /\ proc = NoProc
    /\ pipeline = NoPipeline
    /\ partial_processors = <<>>
    /\ pc = "load"
    /\ pidx = 1
    /\ sidx = 1
    /\ cidx = 1
    /\ err = NoErr
    /\ loaded = Zeros(0, 0, 0)
    /\ execLog = <<>>
    /\ opCount = 0
    /\ lastOp = NoOp
    /\ snapB = NoContent
    /\ snapC = NoContent
    /\ call = [fn |-> "none"]

Init ==
    /\ fs \in FileSystems
    /\ config \in Configs
    /\ debug = FALSE
    /\ InitRun

\* the run ends with an exception
Raised(type, partial, step) ==
    /\ pc' = "raised"
    /\ err' = [type |-> type, partial |-> partial, step |-> step]

\* base = ProcessorClass.load(input_path)
RunLoad ==
    /\ pc = "load"
    /\ LET r == Load(heap, fs, InputPath) IN
       IF r.err # "none"
       THEN /\ Raised(r.err, 0, 0)
            /\ UNCHANGED <<heap, base, loaded>>
       ELSE /\ heap' = r.heap
            /\ base' = r.self
            /\ loaded' = Deref(r.heap, r.self.image)
            /\ pc' = "load_layout"
            /\ err' = err
    /\ UNCHANGED <<fs, config, debug, canvas, layout, proc, pipeline, partial_processors,
                   pidx, sidx, cidx, execLog>>
    /\ UNCHANGED <<opsVars, call>>

\* canvas, layout = base.load_layout(layout_path)
RunLoadLayout ==
    /\ pc = "load_layout"
    /\ LET r == LoadLayout(heap, base, fs, LayoutPath) IN
       IF r.err # "none"
       THEN /\ Raised(r.err, 0, 0)
            /\ UNCHANGED <<heap, canvas, layout>>
       ELSE /\ heap' = r.heap
            /\ canvas' = r.canvas
            /\ layout' = r.layout
            /\ pc' = IF Len(config) = 0 THEN "composite" ELSE "partial"
            /\ err' = err
    /\ UNCHANGED <<fs, config, debug, base, proc, pipeline, partial_processors,
                   pidx, sidx, cidx, loaded, execLog>>
    /\ UNCHANGED <<opsVars, call>>

\* the head of the loop over partials_json:
\* pipeline = PartialPipeline.from_json(partial_json, asset_dir); proc = base.clone()
RunBeginPartial ==
    /\ pc = "partial"
    /\ pidx <= Len(config)
    /\ IF FromJsonRaises(config[pidx])
       THEN /\ Raised("TypeError", pidx, 0)
            /\ UNCHANGED <<heap, proc, pipeline, sidx, execLog>>
       ELSE LET r == Clone(heap, base) IN
            /\ pipeline' = FromJson(config[pidx], AssetDir)
            /\ heap' = r.heap
            /\ proc' = r.self
            /\ sidx' = 1
            /\ execLog' = Append(execLog, <<>>)
            /\ pc' = "step"
            /\ err' = err
    /\ UNCHANGED <<fs, config, debug, base, canvas, layout, partial_processors, pidx, cidx, loaded>>
    /\ UNCHANGED <<opsVars, call>>

\* the command the inner loop runs next: enumerate(pipeline.steps)
NextCommand(pl, idx) == pl.steps[idx]

\* os.path.join(output_dir, f"debug_{id}_{idx}_{action}.png")
DebugPath == <<"debug.png">>

\* one turn of the loop over pipeline.steps: step.execute(proc) and, with
\* debug, proc.save(...) of the snapshot; lastOp records that save and, in x
\* and y, the partial and the step it followed
RunStep ==
    /\ pc = "step"
    /\ sidx <= Len(pipeline.steps)
    /\ LET cmd == NextCommand(pipeline, sidx)
           r == Execute(heap, proc, fs, cmd)
           snapshot == Save(r.heap, r.self, DebugPath)
           saved == [NoOp EXCEPT !.op = "save", !.target = "C", !.err = snapshot.err,
                                 !.ret = snapshot.ret, !.x = pidx, !.y = sidx,
                                 !.before = Deref(r.heap, r.self.image),
                                 !.written = IF snapshot.err = "none"
                                             THEN SaveData(r.heap, r.self)
                                             ELSE NoWritten]
       IN  IF r.err # "none"
           THEN /\ Raised(r.err, pidx, sidx)
                /\ UNCHANGED <<heap, proc, sidx, execLog, lastOp>>
           ELSE /\ heap' = IF debug THEN snapshot.heap ELSE r.heap
                /\ proc' = IF debug THEN snapshot.self ELSE r.self
                /\ execLog' = [execLog EXCEPT ![pidx] = Append(@, cmd)]
                /\ lastOp' = IF debug THEN saved ELSE lastOp
                /\ IF debug /\ snapshot.err # "none"
                   THEN /\ Raised(snapshot.err, pidx, sidx)
                        /\ UNCHANGED sidx
                   ELSE /\ sidx' = sidx + 1
                        /\ UNCHANGED <<pc, err>>
    /\ UNCHANGED <<fs, config, debug, base, canvas, layout, pipeline, partial_processors,
                   pidx, cidx, loaded>>
    /\ UNCHANGED <<opCount, snapB, snapC, call>>

\* an inner loop that composites each piece as soon as its steps are done
RunEndPartialEager ==
    /\ pc = "step"
    /\ sidx > Len(pipeline.steps)
    /\ LET r == Composite(heap, canvas, proc, pipeline.location.left, pipeline.location.top) IN
       /\ heap' = r.heap
       /\ canvas' = r.self
    /\ partial_processors' = Append(partial_processors, [proc |-> proc, loc |-> pipeline.location])
    /\ pidx' = pidx + 1
    /\ pc' = IF pidx + 1 > Len(config) THEN "composite" ELSE "partial"
    /\ UNCHANGED <<fs, config, debug, base, layout, proc, pipeline,
                   sidx, cidx, err, loaded, execLog>>
    /\ UNCHANGED <<opsVars, call>>

\* the end of the inner loop: partial_processors.append((proc, pipeline.location))
RunEndPartial ==
    /\ pc = "step"
    /\ sidx > Len(pipeline.steps)
    /\ partial_processors' = Append(partial_processors, [proc |-> proc, loc |-> pipeline.location])
    /\ pidx' = pidx + 1
    /\ pc' = IF pidx + 1 > Len(config) THEN "composite" ELSE "partial"
    /\ UNCHANGED <<fs, config, debug, heap, base, canvas, layout, proc, pipeline,
                   sidx, cidx, err, loaded, execLog>>
    /\ UNCHANGED <<opsVars, call>>

\* one turn of the second loop: canvas.composite(proc, loc["left"], loc["top"])
RunCompositePiece ==
    /\ pc = "composite"
    /\ cidx <= Len(partial_processors)
    /\ LET pp == partial_processors[cidx]
           r == Composite(heap, canvas, pp.proc, pp.loc.left, pp.loc.top)
       IN  IF r.err # "none"
           THEN /\ Raised(r.err, cidx, 0)
                /\ UNCHANGED <<heap, canvas, cidx>>
           ELSE /\ heap' = r.heap
                /\ canvas' = r.self
                /\ cidx' = cidx + 1
                /\ UNCHANGED <<pc, err>>
    /\ UNCHANGED <<fs, config, debug, base, layout, proc, pipeline, partial_processors,
                   pidx, sidx, loaded, execLog>>
    /\ UNCHANGED <<opsVars, call>>

\* canvas.composite(layout, 0, 0); return canvas
RunCompositeLayout ==
    /\ pc = "composite"
    /\ cidx > Len(partial_processors)
    /\ LET r == Composite(heap, canvas, layout, 0, 0) IN
       IF r.err # "none"
       THEN /\ Raised(r.err, 0, 0)
            /\ UNCHANGED <<heap, canvas>>
       ELSE /\ heap' = r.heap
            /\ canvas' = r.self
            /\ pc' = "done"
            /\ err' = err
    /\ UNCHANGED <<fs, config, debug, base, layout, proc, pipeline, partial_processors,
                   pidx, sidx, cidx, loaded, execLog>>
    /\ UNCHANGED <<opsVars, call>>

Next ==
    \/ RunLoad
    \/ RunLoadLayout
    \/ RunBeginPartial
    \/ RunStep
    \/ RunEndPartial
    \/ RunCompositePiece
    \/ RunCompositeLayout

Spec == Init /\ [][Next]_vars

-----------------------------------------------------------------------------
(* Runs over sources of every pixel mode, with and without a profile, and  *)
(* the crop-resize-place scenario at every size and location that fits.    *)

\* sources without an alpha channel, a palette image and a grayscale image
RgbSource ==
    MkArray(SrcDim, SrcDim, 3, LAMBDA y, x : <<10 * y + x, 100 + 10 * y + x, 7>>)
CmykSource ==
    MkArray(SrcDim, SrcDim, 4, LAMBDA y, x : <<10 * y + x, 100 + 10 * y + x, 7, 9>>)
PaletteSource == MkArray(SrcDim, SrcDim, 1, LAMBDA y, x : <<y + x>>)
GraySource == MkArray(SrcDim, SrcDim, 1, LAMBDA y, x : <<10 * y + x>>)

\* what input_path may hold: an image of each mode, or nothing
SourceFiles ==
    { ImageFile("RGB", "icc-a", RgbSource),
      ImageFile("RGBA", "icc-a", OpaqueSource),
      ImageFile("RGBA", "", TranslucentSource),
      ImageFile("CMYK", "icc-c", CmykSource),
      ImageFile("P", "icc-a", PaletteSource),
      ImageFile("L", "", GraySource),
      NoFile }

ModeFileSystems ==
    {FileSystemOf(f, lay) : f \in SourceFiles, lay \in {BlankLayout, DecoratedLayout}}

ModeConfigs ==
    { <<>>,
      <<Partial(<<Step("mask", StrData("clear.png"))>>, 0, 0)>>,
      <<Partial(<<Step("mask", StrData("full.png"))>>, 0, 0),
        Partial(<<Step("rotate", NumData(90)), Step("resize", SizeData(1, 2))>>, 1, 1)>>,
      <<Partial(<<Step("mask", StrData("m1.png")),
                  Step("crop", RectData(0, 0, 1, SrcDim))>>, 1, 1)>> }

\* an opaque source and a fully transparent layout
ScenarioFileSystems ==
    { FileSystemOf(ImageFile("RGBA", "icc-a", OpaqueSource), BlankLayout),
      FileSystemOf(ImageFile("RGB", "icc-a", RgbSource), BlankLayout) }

\* one partial [crop{0, 0, w, h}, resize{w2, h2}] placed at {t, l} so that the
\* w2 x h2 block lies inside the canvas
ScenarioConfigs ==
    { <<Partial(<<Step("crop", RectData(0, 0, d[1], d[2])),
                  Step("resize", SizeData(d[3], d[4]))>>, d[5], d[6])>> :
        d \in { e \in (1..SrcDim) \X (1..SrcDim) \X (1..SrcDim) \X (1..SrcDim)
                      \X (0..LayoutDim) \X (0..LayoutDim) :
                    /\ e[5] + e[4] <= LayoutDim
                    /\ e[6] + e[3] <= LayoutDim } }

InitModes ==
    /\ \/ fs \in ModeFileSystems /\ config \in ModeConfigs
       \/ fs \in ScenarioFileSystems /\ config \in ScenarioConfigs
    /\ debug = FALSE
    /\ InitRun

SpecModes == InitModes /\ [][Next]_vars

\* the runs over every source and step kind, with and without debug=True
InitDebug ==
    /\ fs \in ModeFileSystems
    /\ config \in ModeConfigs
    /\ debug \in BOOLEAN
    /\ InitRun

SpecDebug == InitDebug /\ [][Next]_vars

-----------------------------------------------------------------------------
(* The processor interface used directly: a source processor B (`base`),   *)
(* its clone C (`proc`), and any calls of erase_by_mask / resize / rotate  *)
(* / crop / composite on either.                                           *)

\* the sources of the object-level runs: the RGBA sources and a CMYK source
OpsFileSystems ==
    FileSystems \cup {FileSystemOf(ImageFile("CMYK", "icc-c", CmykSource), DecoratedLayout)}

InitOps ==
    /\ debug = FALSE
    /\ fs \in OpsFileSystems
    /\ LET r == Load(<<>>, fs, InputPath) IN
       /\ heap = r.heap
       /\ base = r.self
       /\ loaded = Deref(r.heap, r.self.image)
       /\ snapB = Content(r.heap, r.self)
    /\ proc = NoProc
    /\ snapC = NoContent
    /\ opCount = 0
    /\ lastOp = NoOp
    /\ config = <<>>
    /\ canvas = NoProc
    /\ layout = NoProc
    /\ pipeline = NoPipeline
    /\ partial_processors = <<>>
    /\ pc = "ops"
    /\ pidx = 1
    /\ sidx = 1
    /\ cidx = 1
    /\ err = NoErr
    /\ execLog = <<>>
    /\ call = [fn |-> "none"]

Targets == {t \in {"B", "C"} : t = "B" \/ Exists(proc)}
Target(t) == IF t = "B" THEN base ELSE proc
OtherOf(t) == IF t = "B" THEN proc ELSE base

\* the call op on target t had the result r
OpsCall(op, t, r, other, x, y) ==
    /\ opCount < MaxOps
    /\ t \in Targets
    /\ opCount' = opCount + 1
    /\ heap' = r.heap
    /\ lastOp' = [op |-> op, target |-> t, err |-> r.err, ret |-> r.ret,
                  before |-> Deref(heap, Target(t).image),
                  other |-> other, x |-> x, y |-> y, written |-> NoWritten]
    /\ IF t = "B"
       THEN /\ base' = r.self
            /\ snapB' = Content(r.heap, r.self)
            /\ UNCHANGED <<proc, snapC>>
       ELSE /\ proc' = r.self
            /\ snapC' = Content(r.heap, r.self)
            /\ UNCHANGED <<base, snapB>>
    /\ UNCHANGED <<fs, config, debug, canvas, layout, pipeline, partial_processors,
                   pc, pidx, sidx, cidx, err, loaded, execLog, call>>

\* c = B.clone()
OpsClone ==
    /\ pc = "ops"
    /\ opCount < MaxOps
    /\ ~Exists(proc)
    /\ LET r == Clone(heap, base) IN
       /\ heap' = r.heap
       /\ proc' = r.self
       /\ snapC' = Content(r.heap, r.self)
       /\ lastOp' = [NoOp EXCEPT !.op = "clone", !.target = "B", !.ret = r.ret,
                                 !.before = Deref(heap, base.image)]
    /\ opCount' = opCount + 1
    /\ UNCHANGED <<fs, config, debug, base, canvas, layout, pipeline, partial_processors,
                   pc, pidx, sidx, cidx, err, loaded, execLog, snapB, call>>

OpsEraseByMask ==
    /\ pc = "ops"
    /\ \E t \in Targets, path \in {MaskPath, FullMaskPath} :
          OpsCall("erase_by_mask", t, EraseByMask(heap, Target(t), fs, path),
                  Zeros(0, 0, 0), 0, 0)

OpsResize ==
    /\ pc = "ops"
    /\ \E t \in Targets :
          OpsCall("resize", t, Resize(heap, Target(t), 1, SrcDim), Zeros(0, 0, 0), 0, 0)

OpsRotate ==
    /\ pc = "ops"
    /\ \E t \in Targets :
          OpsCall("rotate", t, Rotate(heap, Target(t), 90), Zeros(0, 0, 0), 0, 0)

OpsCrop ==
    /\ pc = "ops"
    /\ \E t \in Targets, left \in {0, 1} :
          OpsCall("crop", t, Crop(heap, Target(t), left, 0, 1, SrcDim), Zeros(0, 0, 0), 0, 0)

OpsComposite ==
    /\ pc = "ops"
    /\ Exists(proc)
    /\ \E t \in Targets, off \in {<<0, 0>>, <<1, 0>>, <<0 - 1, 0 - 1>>} :
          OpsCall("composite", t, Composite(heap, Target(t), OtherOf(t), off[1], off[2]),
                  Deref(heap, OtherOf(t).image), off[1], off[2])

\* p.save(path): lastOp.written is what the encoder was handed
OpsSave ==
    /\ pc = "ops"
    /\ opCount < MaxOps
    /\ \E t \in Targets :
          LET r == Save(heap, Target(t), <<"out.tif">>) IN
          lastOp' = [NoOp EXCEPT !.op = "save", !.target = t, !.err = r.err,
                                 !.ret = r.ret,
                                 !.before = Deref(heap, Target(t).image),
                                 !.written = IF r.err = "none"
                                             THEN SaveData(heap, Target(t))
                                             ELSE NoWritten]
    /\ opCount' = opCount + 1
    /\ UNCHANGED <<fs, config, debug, heap, base, canvas, layout, proc, pipeline,
                   partial_processors, pc, pidx, sidx, cidx, err, loaded, execLog,
                   snapB, snapC, call>>

\* canvas, layout = p.load_layout(layout_path), once
OpsLoadLayout ==
    /\ pc = "ops"
    /\ opCount < MaxOps
    /\ ~Exists(canvas)
    /\ \E t \in Targets :
          LET r == LoadLayout(heap, Target(t), fs, LayoutPath) IN
          /\ heap' = r.heap
          /\ canvas' = r.canvas
          /\ layout' = r.layout
          /\ lastOp' = [NoOp EXCEPT !.op = "load_layout", !.target = t, !.err = r.err,
                                    !.before = Deref(heap, Target(t).image)]
    /\ opCount' = opCount + 1
    /\ UNCHANGED <<fs, config, debug, base, proc, pipeline, partial_processors,
                   pc, pidx, sidx, cidx, err, loaded, execLog, snapB, snapC, call>>

NextOps ==
    \/ OpsSave
    \/ OpsLoadLayout
    \/ OpsClone
    \/ OpsEraseByMask
    \/ OpsResize
    \/ OpsRotate
    \/ OpsCrop
    \/ OpsComposite

SpecOps == InitOps /\ [][NextOps]_vars

-----------------------------------------------------------------------------
(* The step functions on their own: one call of a mask or crop function,   *)
(* its arguments drawn by InitFn.                                          *)

\* main.py: MASK_INVERT = False
MASK_INVERT == FALSE

\* main.py apply_mask, one sample: (sample.astype(float32) * (mask / 255.0))
\* .astype(uint8), the mask inverted first when MASK_INVERT is set.  On 8-bit
\* operands the float32 product truncates to the integer quotient.
ApplyMaskSample(sample, mask_alpha) ==
    (sample * (IF MASK_INVERT THEN MaxSample - mask_alpha ELSE mask_alpha)) \div MaxSample

\* cmyk.py apply_mask, one sample: np.where(alpha == 0, np_img, 0)
CmykMaskSample(sample, mask_alpha) == IF mask_alpha = 0 THEN sample ELSE 0

\* the window [y0, x0, h, w] of a view
Window(v) == [y0 |-> v.y0, x0 |-> v.x0, h |-> v.h, w |-> v.w]

\* a view of a whole h x w array
ViewOf(h, w) == [buf |-> 1, y0 |-> 0, x0 |-> 0, h |-> h, w |-> w]

\* main.py crop_image: top and left clamped into the image, bottom and right
\* cut at its edges, then image[top:bottom, left:right]
CropImage(h, w, top, left, width, height) ==
    LET t == Max(0, Min(top, h))
        l == Max(0, Min(left, w))
        bottom == Min(h, t + height)
        right == Min(w, l + width)
    IN  Window(SliceView(ViewOf(h, w), t, bottom, l, right))

\* cmyk.py crop_img: np_img[y1:y2, x1:x2]
CropImg(h, w, crop_box) ==
    Window(SliceView(ViewOf(h, w), crop_box[2], crop_box[4], crop_box[1], crop_box[3]))

NoWindow == [y0 |-> 0, x0 |-> 0, h |-> 0, w |-> 0]

MaskFns == {"erase_by_mask", "apply_mask", "cmyk_apply_mask"}
CropFns == {"crop", "crop_image", "crop_img"}

\* a call of a mask function on one pixel: its alpha and the mask's coverage
MaskCalls ==
    {[fn |-> f, a |-> a, m |-> m, h |-> 0, w |-> 0, top |-> 0, left |-> 0,
      width |-> 0, height |-> 0, done |-> FALSE, out |-> 0, win |-> NoWindow] :
        f \in MaskFns, a \in 0..MaxSample, m \in 0..MaxSample}

\* a call of a crop function: the buffer's size and the requested rectangle,
\* whose origin may lie before or beyond the buffer
CropCalls ==
    {[fn |-> f, a |-> 0, m |-> 0, h |-> h, w |-> w, top |-> top, left |-> left,
      width |-> width, height |-> height, done |-> FALSE, out |-> 0, win |-> NoWindow] :
        f \in CropFns, h \in 0..MaxDim, w \in 0..MaxDim,
        top \in (0 - MaxDim - 1)..(MaxDim + 1), left \in (0 - MaxDim - 1)..(MaxDim + 1),
        width \in 0..(MaxDim + 1), height \in 0..(MaxDim + 1)}

InitFn ==
    /\ debug = FALSE
    /\ call \in MaskCalls \cup CropCalls
    /\ fs = [q \in Paths |-> NoFile]
    /\ config = <<>>
    /\ heap = <<>>
    /\ base = NoProc
    /\ canvas = NoProc
    /\ layout = NoProc
    /\ proc = NoProc
    /\ pipeline = NoPipeline
    /\ partial_processors = <<>>
    /\ pc = "fn"
    /\ pidx = 1
    /\ sidx = 1
    /\ cidx = 1
    /\ err = NoErr
    /\ loaded = Zeros(0, 0, 0)
    /\ execLog = <<>>
    /\ opCount = 0
    /\ lastOp = NoOp
    /\ snapB = NoContent
    /\ snapC = NoContent

\* the call returns: out is the new alpha, win the window cropped to
Return(out, win) ==
    /\ pc = "fn"
    /\ ~call.done
    /\ call' = [call EXCEPT !.done = TRUE, !.out = out, !.win = win]
    /\ UNCHANGED <<runnerVars, opsVars>>

\* OpenCVProcessor.erase_by_mask on one pixel
FnEraseByMask ==
    /\ call.fn = "erase_by_mask"
    /\ Return(EraseAlpha(call.a, call.m), NoWindow)

\* main.py apply_mask on one pixel
FnApplyMask ==
    /\ call.fn = "apply_mask"
    /\ Return(ApplyMaskSample(call.a, call.m), NoWindow)

\* cmyk.py apply_mask on one pixel
FnCmykApplyMask ==
    /\ call.fn = "cmyk_apply_mask"
    /\ Return(CmykMaskSample(call.a, call.m), NoWindow)

\* OpenCVProcessor.crop(left, top, width, height)
FnCrop ==
    /\ call.fn = "crop"
    /\ Return(0, Window(Crop(<<>>, Processor(ViewOf(call.h, call.w), "", "RGBA"),
                             call.left, call.top, call.width, call.height).self.image))

\* main.py crop_image(image, top, left, width, height)
FnCropImage ==
    /\ call.fn = "crop_image"
    /\ Return(0, CropImage(call.h, call.w, call.top, call.left, call.width, call.height))

\* cmyk.py: box = (left, top, left + width, top + height); crop_img(cmyk_array, box)
FnCropImg ==
    /\ call.fn = "crop_img"
    /\ Return(0, CropImg(call.h, call.w,
                         <<call.left, call.top, call.left + call.width,
                           call.top + call.height>>))

NextFn ==
    \/ FnEraseByMask
    \/ FnApplyMask
    \/ FnCmykApplyMask
    \/ FnCrop
    \/ FnCropImage
    \/ FnCropImg

SpecFn == InitFn /\ [][NextFn]_vars

-----------------------------------------------------------------------------
(* What a partial's steps compute, as one function of the source.          *)

RECURSIVE RunCommands(_, _, _, _)
\* the commands run one after the other on p, up to the first that raises
RunCommands(hp, p, files, cmds) ==
    IF cmds = <<>> THEN Ok(hp, p)
    ELSE LET r == Execute(hp, p, files, Head(cmds)) IN
         IF r.err # "none" THEN r
         ELSE RunCommands(r.heap, r.self, files, Tail(cmds))

\* the piece the commands make of a copy of the array src: [err, arr]
PieceOf(src, files, cmds) ==
    LET c == Clone(<<src>>, Processor(WholeView(1, src), "", "RGBA"))
        r == RunCommands(c.heap, c.self, files, cmds)
    IN  [err |-> r.err, arr |-> Deref(r.heap, r.self.image)]

\* command cmd is step st of the configuration
CommandOf(cmd, st) ==
    /\ cmd.action_type = (IF st.action = "mask" THEN "erase_by_mask" ELSE st.action)
    /\ cmd.params.kind = st.data.kind
    /\ <<cmd.params.top, cmd.params.left, cmd.params.width, cmd.params.height,
         cmd.params.angle>>
       = <<st.data.top, st.data.left, st.data.width, st.data.height, st.data.angle>>
    /\ Len(cmd.params.path) >= Len(st.data.path)
    /\ SubSeq(cmd.params.path, Len(cmd.params.path) - Len(st.data.path) + 1,
              Len(cmd.params.path)) = st.data.path

\* the channel count of a mode tag
ChannelsOf(mode) == IF mode = "CMYKA" THEN 5 ELSE 4

\* the partial the runner is at, or was at when a step raised
InSteps == pc = "step" \/ (pc = "raised" /\ err.step > 0)
CurrentPartial == IF pc = "raised" THEN err.partial ELSE pidx
StepsDone == IF pc = "raised" THEN err.step - 1 ELSE sidx - 1

-----------------------------------------------------------------------------
(* Claims about run_multi_pipeline, checked under Spec.                    *)

\* C2: within one partial the steps run strictly in configuration order on
\* the same processor: the pipeline from_json built has the configured steps
\* in number and order, the commands executed so far are exactly its first
\* steps in order, and the piece is what those commands, applied one to the
\* output of the other, make of a copy of the source.
C2_StepsInListOrder ==
    InSteps =>
        /\ Len(pipeline.steps) = Len(config[CurrentPartial].steps)
        /\ \A k \in 1..Len(pipeline.steps) :
              CommandOf(pipeline.steps[k], config[CurrentPartial].steps[k])
        /\ execLog[CurrentPartial] = SubSeq(pipeline.steps, 1, StepsDone)
        /\ Deref(heap, proc.image) = PieceOf(loaded, fs, execLog[CurrentPartial]).arr

\* C2 witness: two different steps of a partial have been executed
C2_Witness ==
    /\ pc = "step"
    /\ sidx = 3
    /\ execLog[pidx][1].action_type # execLog[pidx][2].action_type
    /\ Deref(heap, proc.image) # loaded

\* C3: every configured partial is executed exactly once on a clone of its
\* own, the source buffer stays what load produced, and so every finished
\* piece is what that partial's own steps make of the source.
C3_PartialsIndependent ==
    /\ Exists(base) => Deref(heap, base.image) = loaded
    /\ \A i \in 1..Len(partial_processors) :
          /\ partial_processors[i].proc.image.buf # base.image.buf
          /\ \A j \in 1..Len(partial_processors) :
                i # j => partial_processors[i].proc.image.buf
                         # partial_processors[j].proc.image.buf
          /\ partial_processors[i].loc = config[i].location
          /\ Deref(heap, partial_processors[i].proc.image)
             = PieceOf(loaded, fs, FromJsonSteps(config[i].steps, AssetDir)).arr
    /\ pc \in {"composite", "done"} =>
          /\ Len(partial_processors) = Len(config)
          /\ Len(execLog) = Len(config)

\* C3 witness: a finished run of two partials, the first of which masked its
\* clone, with different pieces
C3_Witness ==
    /\ pc = "done"
    /\ Len(config) = 2
    /\ Len(execLog[1]) > 0
    /\ execLog[1][1].action_type = "erase_by_mask"
    /\ Deref(heap, partial_processors[1].proc.image) # loaded
    /\ Deref(heap, partial_processors[2].proc.image) = loaded

\* piece i lies over canvas pixel (y, x) with nonzero alpha
Covers(i, y, x) ==
    LET pp == partial_processors[i]
        a == Deref(heap, pp.proc.image)
    IN  /\ y - pp.loc.top \in 1..a.h
        /\ x - pp.loc.left \in 1..a.w
        /\ Alpha(a.px[y - pp.loc.top, x - pp.loc.left]) > 0

\* the pixel the paint order gives canvas position (y, x)
Painted(y, x) ==
    LET lay == Deref(heap, layout.image)
        over == {i \in 1..Len(partial_processors) : Covers(i, y, x)}
    IN  IF Alpha(lay.px[y, x]) > 0 THEN lay.px[y, x]
        ELSE IF over = {} THEN <<0, 0, 0, 0>>
        ELSE LET i == CHOOSE k \in over : \A m \in over : m <= k
                 pp == partial_processors[i]
             IN  Deref(heap, pp.proc.image).px[y - pp.loc.top, x - pp.loc.left]

\* C4: in the returned canvas every pixel is the layout's pixel where the
\* layout's alpha is nonzero, else the pixel of the last piece in list order
\* that covers it with nonzero alpha, else the zero pixel.
C4_PaintOrder ==
    pc = "done" =>
        LET cv == Deref(heap, canvas.image) IN
        \A q \in DOMAIN cv.px : cv.px[q] = Painted(q[1], q[2])

\* C5: a step whose action is outside the vocabulary is never executed: the
\* run raises at it.
C5_UnknownActionRaises ==
    \A i \in 1..Len(execLog) :
        \A k \in 1..Len(execLog[i]) : config[i].steps[k].action \in Vocabulary

\* C6: a mask step whose file does not exist never ends the run.
C6_MissingMaskNonFatal ==
    ~(/\ pc = "raised"
      /\ err.step > 0
      /\ config[err.partial].steps[err.step].action = "mask"
      /\ ~fs[JoinPath(AssetDir, config[err.partial].steps[err.step].data.path)].exists)

-----------------------------------------------------------------------------
(* Claims about the processor interface, checked under SpecOps.            *)

\* C1: clone isolation: a call on the clone leaves the original's pixels,
\* dimensions, channel mode and profile as they were, and a call on the
\* original leaves the clone's: each processor still shows what it showed
\* after the last call made on itself.
C1_CloneIsolation ==
    /\ Exists(base) => Content(heap, base) = snapB
    /\ Exists(proc) => Content(heap, proc) = snapC

\* C1 witness: the clone has been masked in place and now differs from the
\* original
C1_Witness ==
    /\ Exists(proc)
    /\ lastOp.op = "erase_by_mask"
    /\ lastOp.target = "C"
    /\ lastOp.err = "none"
    /\ Deref(heap, proc.image) # lastOp.before
    /\ Content(heap, proc) # Content(heap, base)

AllAlphaZero(a) == \A q \in DOMAIN a.px : Alpha(a.px[q]) = 0

\* C10: compositing a piece whose alpha is zero everywhere, at any offset,
\* does not raise and leaves the canvas bit-identical.
C10_ZeroCoverageComposite ==
    (lastOp.op = "composite" /\ AllAlphaZero(lastOp.other)) =>
        /\ lastOp.err = "none"
        /\ Deref(heap, Target(lastOp.target).image) = lastOp.before

\* canvas position q lies in the rectangle of the piece last composited
InPiece(q) ==
    /\ q[1] - lastOp.y \in 1..lastOp.other.h
    /\ q[2] - lastOp.x \in 1..lastOp.other.w

\* C11: out-of-bounds placement: at every offset composite does not raise,
\* keeps the canvas dimensions and changes no canvas pixel outside the
\* piece's rectangle.
C11_OutOfBoundsPlacement ==
    lastOp.op = "composite" =>
        /\ lastOp.err = "none"
        /\ LET after == Deref(heap, Target(lastOp.target).image) IN
           /\ after.h = lastOp.before.h
           /\ after.w = lastOp.before.w
           /\ \A q \in DOMAIN lastOp.before.px :
                 ~InPiece(q) => after.px[q] = lastOp.before.px[q]

\* C12: chaining: resize, rotate and crop each return the processor they
\* were called on.
C12_Chaining ==
    (lastOp.op \in {"resize", "rotate", "crop"} /\ lastOp.err = "none") =>
        lastOp.ret = "processor"

\* the piece last composited lies inside the canvas
PieceInside ==
    /\ lastOp.x >= 0
    /\ lastOp.y >= 0
    /\ lastOp.x + lastOp.other.w <= lastOp.before.w
    /\ lastOp.y + lastOp.other.h <= lastOp.before.h

\* C21: hard-replace composite: when the piece lies inside the canvas, after
\* canvas.composite(other, x, y) the call has not raised, every canvas pixel
\* covered by a pixel of other with nonzero alpha equals that pixel in all
\* channels, every covered pixel where other's alpha is 0 is unchanged, every
\* pixel outside the piece's rectangle is unchanged, and other is not modified.
C21_HardReplace ==
    (lastOp.op = "composite" /\ PieceInside) =>
        LET after == Deref(heap, Target(lastOp.target).image)
            o == lastOp.other
        IN  /\ lastOp.err = "none"
            /\ after.h = lastOp.before.h
            /\ after.w = lastOp.before.w
            /\ \A q \in DOMAIN after.px :
                  after.px[q] =
                     IF InPiece(q) /\ Alpha(o.px[q[1] - lastOp.y, q[2] - lastOp.x]) > 0
                     THEN o.px[q[1] - lastOp.y, q[2] - lastOp.x]
                     ELSE lastOp.before.px[q]
            /\ Deref(heap, OtherOf(lastOp.target).image) = o

\* C21 witness: a one-column piece with a pixel of alpha 0 and a pixel of
\* nonzero alpha has been composited at x = 1 and has changed the canvas
C21_Witness ==
    /\ lastOp.op = "composite"
    /\ lastOp.err = "none"
    /\ lastOp.x = 1
    /\ PieceInside
    /\ \E q \in DOMAIN lastOp.other.px : Alpha(lastOp.other.px[q]) = 0
    /\ \E q \in DOMAIN lastOp.other.px : Alpha(lastOp.other.px[q]) > 0
    /\ Deref(heap, Target(lastOp.target).image) # lastOp.before

\* C22: mask size mismatch: a mask step with an existing mask image
\* completes without raising whatever the sizes of mask and buffer (the mask
\* being resampled to the buffer's size), and the buffer keeps its dimensions.
C22_MaskSizeMismatch ==
    lastOp.op = "erase_by_mask" =>
        /\ lastOp.err = "none"
        /\ Deref(heap, Target(lastOp.target).image).h = lastOp.before.h
        /\ Deref(heap, Target(lastOp.target).image).w = lastOp.before.w

\* the processors of the object-level runs
Processors == {p \in {base, proc, canvas, layout} : Exists(p)}

\* C16: the profile is read once and never changed: every processor derived
\* from the source carries the profile the source file holds, and save hands
\* that profile to the encoder.
C16_ProfileReadOnce ==
    /\ \A p \in Processors : p.icc_profile = fs[InputPath].icc
    /\ (lastOp.op = "save" /\ lastOp.err = "none") =>
          lastOp.written.icc = fs[InputPath].icc

\* C16 witness: a clone has been saved after a layout was loaded
C16_Witness ==
    /\ lastOp.op = "save"
    /\ lastOp.target = "C"
    /\ lastOp.err = "none"
    /\ lastOp.written.icc = "icc-b"
    /\ Exists(canvas)

\* C17: erased-pixel colour zeroing: in the pixel data save hands to the
\* encoder every pixel of alpha 0 has all colour channels 0, the other pixels
\* are the buffer's, and the buffer saved is not modified.
C17_ErasedPixelZeroing ==
    (lastOp.op = "save" /\ lastOp.err = "none") =>
        /\ \A q \in DOMAIN lastOp.written.arr.px :
              IF Alpha(lastOp.written.arr.px[q]) = 0
              THEN \A k \in 1..(Len(lastOp.written.arr.px[q]) - 1) :
                      lastOp.written.arr.px[q][k] = 0
              ELSE lastOp.written.arr.px[q] = lastOp.before.px[q]
        /\ Deref(heap, Target(lastOp.target).image) = lastOp.before

\* the mode load gives a source file
LoadedMode == IF fs[InputPath].mode = "CMYK" THEN "CMYKA" ELSE "RGBA"

\* C20: channel layout: after any sequence of steps and composites a
\* processor's buffer has the channel count it had after load (4 for RGBA, 5
\* for CMYKA) in every pixel, its mode tag is the one load gave, and the
\* last channel is the alpha channel: a mask step changes no other channel.
C20_ChannelLayout ==
    /\ \A p \in {r \in {base, proc} : Exists(r)} :
          LET a == Deref(heap, p.image) IN
          /\ p.mode = LoadedMode
          /\ a.c = ChannelsOf(p.mode)
          /\ a.c = loaded.c
          /\ \A q \in DOMAIN a.px : Len(a.px[q]) = a.c
    /\ (lastOp.op = "erase_by_mask" /\ lastOp.err = "none") =>
          LET a == Deref(heap, Target(lastOp.target).image) IN
          \A q \in DOMAIN a.px : Colour(a.px[q]) = Colour(lastOp.before.px[q])

\* C20 witness: a CMYKA clone has been resized to another width
C20_Witness ==
    /\ lastOp.op = "resize"
    /\ lastOp.target = "C"
    /\ lastOp.err = "none"
    /\ proc.mode = "CMYKA"
    /\ Deref(heap, proc.image).w # lastOp.before.w
    /\ Deref(heap, proc.image).c = 5

-----------------------------------------------------------------------------
(* One geometric call (automatic crop, rotate, resize) on a buffer of any  *)
(* size up to MaxDim x MaxDim and any pattern of erased and opaque pixels. *)

\* the alpha values of the test buffers: erased and opaque
AlphaLevels == {0, MaxSample}

\* the buffers: every pixel has its own colour, the alpha plane is any pattern
TestImages ==
    UNION { { MkArray(d[1], d[2], 4,
                  LAMBDA y, x : <<10 * y + x, 100 + 10 * y + x, 7, f[y, x]>>) :
              f \in [Range(d[1]) \X Range(d[2]) -> AlphaLevels] } :
            d \in (1..MaxDim) \X (1..MaxDim) }

InitImg ==
    /\ debug = FALSE
    /\ \E a \in TestImages :
          /\ heap = <<a>>
          /\ base = Processor(WholeView(1, a), "icc-a", "RGBA")
          /\ loaded = a
          /\ snapB = Content(<<a>>, Processor(WholeView(1, a), "icc-a", "RGBA"))
    /\ fs = [q \in Paths |-> NoFile]
    /\ proc = NoProc
    /\ snapC = NoContent
    /\ opCount = 0
    /\ lastOp = NoOp
    /\ config = <<>>
    /\ canvas = NoProc
    /\ layout = NoProc
    /\ pipeline = NoPipeline
    /\ partial_processors = <<>>
    /\ pc = "img"
    /\ pidx = 1
    /\ sidx = 1
    /\ cidx = 1
    /\ err = NoErr
    /\ execLog = <<>>
    /\ call = [fn |-> "none"]

\* the call op(x, y) on the buffer had the result r
ImgCall(op, r, x, y) ==
    /\ opCount = 0
    /\ opCount' = 1
    /\ heap' = r.heap
    /\ base' = r.self
    /\ snapB' = Content(r.heap, r.self)
    /\ lastOp' = [NoOp EXCEPT !.op = op, !.target = "B", !.err = r.err, !.ret = r.ret,
                              !.before = Deref(heap, base.image), !.x = x, !.y = y]
    /\ UNCHANGED <<fs, config, debug, canvas, layout, proc, pipeline, partial_processors,
                   pc, pidx, sidx, cidx, err, loaded, execLog, snapC, call>>

\* p.crop(auto=True)
ImgCropAuto ==
    /\ pc = "img"
    /\ ImgCall("crop_auto", CropAuto(heap, base), 0, 0)

\* the angles tried: the multiples of 90 degrees, either way round
RotateAngles == {0, 90, 180, 270, 0 - 90}

\* p.rotate(angle)
ImgRotate ==
    /\ pc = "img"
    /\ \E angle \in RotateAngles :
          ImgCall("rotate", Rotate(heap, base, angle), angle, 0)

\* main.py: image = rotate_image(image, angle)
ImgRotateImage ==
    /\ pc = "img"
    /\ \E angle \in RotateAngles :
          ImgCall("rotate_image", RotateImage(heap, base, angle), angle, 0)

\* cmyk.py: cmyk_array = rotate_img(cmyk_array, angle)
ImgRotateImg ==
    /\ pc = "img"
    /\ \E angle \in RotateAngles :
          ImgCall("rotate_img", RotateImg(heap, base, angle), angle, 0)

\* p.resize(width, height)
ImgResize ==
    /\ pc = "img"
    /\ \E width, height \in 1..MaxDim :
          ImgCall("resize", Resize(heap, base, width, height), width, height)

\* main.py: cur = resize_image(cur, width, height)
ImgResizeImage ==
    /\ pc = "img"
    /\ \E width, height \in 1..MaxDim :
          ImgCall("resize_image", ResizeImage(heap, base, width, height), width, height)

NextImg ==
    \/ ImgResize
    \/ ImgResizeImage
    \/ ImgCropAuto
    \/ ImgRotate
    \/ ImgRotateImage
    \/ ImgRotateImg

SpecImg == InitImg /\ [][NextImg]_vars

-----------------------------------------------------------------------------
(* Writing files: icc_utils.save_image_with_icc and the CMYK + alpha save  *)
(* of main.py and convert_layout_rgba_cmkya.py.  A write attempt is        *)
(* accepted or rejected by the writer; `call` holds the position in the    *)
(* code (at), the keyword arguments of the next attempt, the attempts made *)
(* and the files written.                                                  *)

\* what a write attempt of Pillow ends with: success, or the exception raised
WriterOutcomes == {"ok", "RuntimeError", "OSError"}

\* fmt = prefer_format or the extension; 'JPG' is 'JPEG'
SaveFormats == {"TIFF", "PNG", "JPEG"}

\* save_kwargs as built before the first attempt
SaveKwargs(fmt, icc, exif) ==
    (IF icc THEN {"icc_profile"} ELSE {})
    \cup (IF exif /\ fmt = "JPEG" THEN {"exif"} ELSE {})
    \cup (CASE fmt = "TIFF" -> {"compression"}
            [] fmt = "PNG" -> {"compress_level"}
            [] OTHER -> {"quality", "subsampling"})

\* a call at its start: fn is the function called, tifffile is _HAS_TIFFFILE
SaveCall(fn, fmt, icc, exif, tifffile) ==
    [fn |-> fn, fmt |-> fmt, icc |-> icc, exif |-> exif, tifffile |-> tifffile,
     at |-> IF tifffile THEN "five" ELSE "first",
     kwargs |-> SaveKwargs(fmt, icc, exif),
     attempts |-> <<>>, five |-> "none", alpha |-> "none", files |-> {},
     exc |-> "none"]

\* save_image_with_icc called directly with any format, with and without a
\* profile and EXIF data; the CMYK + alpha save of main.py and of
\* convert_layout_rgba_cmkya.py with and without tifffile installed
SaveCalls ==
    { SaveCall("save_image_with_icc", fmt, icc, exif, FALSE) :
        fmt \in SaveFormats, icc \in BOOLEAN, exif \in BOOLEAN }
    \cup { SaveCall(fn, "TIFF", icc, FALSE, tifffile) :
             fn \in {"main", "convert_main"}, icc \in BOOLEAN, tifffile \in BOOLEAN }

InitSave ==
    /\ debug = FALSE
    /\ call \in SaveCalls
    /\ fs = [q \in Paths |-> NoFile]
    /\ config = <<>>
    /\ heap = <<>>
    /\ base = NoProc
    /\ canvas = NoProc
    /\ layout = NoProc
    /\ proc = NoProc
    /\ pipeline = NoPipeline
    /\ partial_processors = <<>>
    /\ pc = "save"
    /\ pidx = 1
    /\ sidx = 1
    /\ cidx = 1
    /\ err = NoErr
    /\ loaded = Zeros(0, 0, 0)
    /\ execLog = <<>>
    /\ opCount = 0
    /\ lastOp = NoOp
    /\ snapB = NoContent
    /\ snapC = NoContent

\* a CMYK + alpha save that ends once the CMYK image is written
AfterImageOnly(c) == "returned"

\* where the code goes on after save_image_with_icc has returned: its caller
\* gets the path, or the CMYK + alpha save writes the alpha image next
AfterImage(c) == IF c.fn = "save_image_with_icc" THEN "returned" ELSE "alpha"

\* tifffile.imwrite of the stacked C, M, Y, K, A planes inside try / except
\* Exception: a failure is caught and the fallback follows
SaveWriteFive ==
    /\ pc = "save"
    /\ call.at = "five"
    /\ \E o \in {"ok", "Exception"} :
          call' = IF o = "ok"
                  THEN [call EXCEPT !.five = o, !.at = "returned",
                                    !.files = @ \cup {[file |-> "five", icc |-> call.icc]}]
                  ELSE [call EXCEPT !.five = o, !.at = "first"]
    /\ UNCHANGED <<runnerVars, opsVars>>

\* the first pil_im.save(out_path, format=fmt, **save_kwargs) and the except
\* RuntimeError clause up to its retry
SaveFirstAttempt ==
    /\ pc = "save"
    /\ call.at = "first"
    /\ \E o \in WriterOutcomes :
          LET tried == Append(call.attempts, [kwargs |-> call.kwargs, outcome |-> o]) IN
          call' =
            CASE o = "ok" ->
                   [call EXCEPT !.attempts = tried, !.at = AfterImage(call),
                                !.files = @ \cup {[file |-> "image",
                                                   icc |-> "icc_profile" \in call.kwargs]}]
              [] o = "RuntimeError" /\ call.fmt = "TIFF" /\ "exif" \in call.kwargs ->
                   [call EXCEPT !.attempts = tried, !.at = "retry",
                                !.kwargs = @ \ {"exif"}]
              [] o = "RuntimeError" /\ ~(call.fmt = "TIFF" /\ "exif" \in call.kwargs)
                                   /\ "icc_profile" \in call.kwargs ->
                   [call EXCEPT !.attempts = tried, !.at = "retry",
                                !.kwargs = @ \ {"icc_profile"}]
              [] OTHER ->
                   [call EXCEPT !.attempts = tried, !.at = "raised", !.exc = o]
    /\ UNCHANGED <<runnerVars, opsVars>>

\* the second pil_im.save, inside the except clause: whatever it raises
\* leaves the function
SaveRetry ==
    /\ pc = "save"
    /\ call.at = "retry"
    /\ \E o \in WriterOutcomes :
          LET tried == Append(call.attempts, [kwargs |-> call.kwargs, outcome |-> o]) IN
          call' =
            IF o = "ok"
            THEN [call EXCEPT !.attempts = tried, !.at = AfterImage(call),
                              !.files = @ \cup {[file |-> "image",
                                                 icc |-> "icc_profile" \in call.kwargs]}]
            ELSE [call EXCEPT !.attempts = tried, !.at = "raised", !.exc = o]
    /\ UNCHANGED <<runnerVars, opsVars>>

\* Image.fromarray(alpha, mode='L').save(base + '_alpha.png')
SaveAlpha ==
    /\ pc = "save"
    /\ call.at = "alpha"
    /\ \E o \in {"ok", "OSError"} :
          call' = IF o = "ok"
                  THEN [call EXCEPT !.alpha = o, !.at = "returned",
                                    !.files = @ \cup {[file |-> "alpha", icc |-> FALSE]}]
                  ELSE [call EXCEPT !.alpha = o, !.at = "raised", !.exc = o]
    /\ UNCHANGED <<runnerVars, opsVars>>

NextSave ==
    \/ SaveWriteFive
    \/ SaveFirstAttempt
    \/ SaveRetry
    \/ SaveAlpha

SpecSave == InitSave /\ [][NextSave]_vars

-----------------------------------------------------------------------------
(* monitor.py: wrapper_monitor(only_time=False) around a function, and the *)
(* monitor process it starts.  `call` holds the wrapper's position         *)
(* (parent), the monitor process's (monitor), the stop event, the samples  *)
(* taken, the queue as the parent can read it, what the function did       *)
(* (outcome, value) and what the wrapper handed to its caller (result).    *)

\* what the wrapped function may do: return a value or raise
FuncOutcomes == {[outcome |-> "returned", value |-> "r1"],
                 [outcome |-> "returned", value |-> "r2"],
                 [outcome |-> "raised", value |-> "ValueError"]}

\* the monitor process is running: started and neither returned nor killed
MonitorRunning(c) == c.monitor \in {"polling", "put", "flushing", "signalled"}

InitMonitor ==
    /\ debug = FALSE
    /\ call = [fn |-> "wrapper_monitor", parent |-> "start", monitor |-> "none",
               stop |-> FALSE, samples |-> 0, queue |-> <<>>, got |-> 0,
               outcome |-> "none", value |-> "none", result |-> "none"]
    /\ fs = [q \in Paths |-> NoFile]
    /\ config = <<>>
    /\ heap = <<>>
    /\ base = NoProc
    /\ canvas = NoProc
    /\ layout = NoProc
    /\ proc = NoProc
    /\ pipeline = NoPipeline
    /\ partial_processors = <<>>
    /\ pc = "monitor"
    /\ pidx = 1
    /\ sidx = 1
    /\ cidx = 1
    /\ err = NoErr
    /\ loaded = Zeros(0, 0, 0)
    /\ execLog = <<>>
    /\ opCount = 0
    /\ lastOp = NoOp
    /\ snapB = NoContent
    /\ snapC = NoContent

\* q = Queue(); stop_event = Event(); monitor_proc = Process(...); start()
WrapStart ==
    /\ pc = "monitor"
    /\ call.parent = "start"
    /\ call' = [call EXCEPT !.parent = "func", !.monitor = "polling"]
    /\ UNCHANGED <<runnerVars, opsVars>>

\* result = func(*args, **kwargs): the call is not inside a try statement,
\* so an exception of func leaves the wrapper here
WrapCall ==
    /\ pc = "monitor"
    /\ call.parent = "func"
    /\ \E f \in FuncOutcomes :
          call' = IF f.outcome = "raised"
                  THEN [call EXCEPT !.outcome = f.outcome, !.value = f.value,
                                    !.parent = "raised", !.result = f.value]
                  ELSE [call EXCEPT !.outcome = f.outcome, !.value = f.value,
                                    !.parent = "set"]
    /\ UNCHANGED <<runnerVars, opsVars>>

\* stop_event.set()
WrapStop ==
    /\ pc = "monitor"
    /\ call.parent = "set"
    /\ call' = [call EXCEPT !.stop = TRUE, !.parent = "join"]
    /\ UNCHANGED <<runnerVars, opsVars>>

\* monitor_proc.join(timeout=5): returns when the process has ended, or
\* after five seconds while it is still running
WrapJoin ==
    /\ pc = "monitor"
    /\ call.parent = "join"
    /\ call' = [call EXCEPT !.parent = "alive"]
    /\ UNCHANGED <<runnerVars, opsVars>>

\* if monitor_proc.is_alive(): monitor_proc.terminate(): the signal is sent,
\* the process is not waited for
WrapTerminate ==
    /\ pc = "monitor"
    /\ call.parent = "alive"
    /\ call' = IF MonitorRunning(call)
               THEN [call EXCEPT !.parent = "drain", !.monitor = "signalled"]
               ELSE [call EXCEPT !.parent = "drain"]
    /\ UNCHANGED <<runnerVars, opsVars>>

\* one turn of the while True loop: q.get_nowait() gives an item, or raises
\* Empty and the loop ends
WrapGet ==
    /\ pc = "monitor"
    /\ call.parent = "drain"
    /\ call' = IF call.queue # <<>>
               THEN [call EXCEPT !.got = Head(call.queue), !.queue = Tail(@)]
               ELSE [call EXCEPT !.parent = "close"]
    /\ UNCHANGED <<runnerVars, opsVars>>

\* q.close(), q.join_thread(), the report, return result
WrapReturn ==
    /\ pc = "monitor"
    /\ call.parent = "close"
    /\ call' = [call EXCEPT !.parent = "returned", !.result = call.value]
    /\ UNCHANGED <<runnerVars, opsVars>>

\* one turn of while not stop_event.is_set(): a sample is taken, or psutil
\* raises and the loop is left
MonPoll ==
    /\ pc = "monitor"
    /\ call.monitor = "polling"
    /\ ~call.stop
    /\ \/ /\ call.samples < MaxSamples
          /\ call' = [call EXCEPT !.samples = @ + 1]
       \/ call' = [call EXCEPT !.monitor = "put"]
    /\ UNCHANGED <<runnerVars, opsVars>>

\* the loop condition finds the stop event set
MonStop ==
    /\ pc = "monitor"
    /\ call.monitor = "polling"
    /\ call.stop
    /\ call' = [call EXCEPT !.monitor = "put"]
    /\ UNCHANGED <<runnerVars, opsVars>>

\* result_queue.put_nowait((cpu_data, mem_data)): the item is handed to the
\* queue's feeder thread, or the put fails and the failure is ignored
MonPut ==
    /\ pc = "monitor"
    /\ call.monitor = "put"
    /\ \/ call' = [call EXCEPT !.monitor = "flushing"]
       \/ call' = [call EXCEPT !.monitor = "exited"]
    /\ UNCHANGED <<runnerVars, opsVars>>

\* the feeder thread writes the item to the pipe and the process ends
MonFlush ==
    /\ pc = "monitor"
    /\ call.monitor = "flushing"
    /\ call' = [call EXCEPT !.monitor = "exited", !.queue = Append(@, call.samples)]
    /\ UNCHANGED <<runnerVars, opsVars>>

\* the terminate signal ends the process
MonDie ==
    /\ pc = "monitor"
    /\ call.monitor = "signalled"
    /\ call' = [call EXCEPT !.monitor = "dead"]
    /\ UNCHANGED <<runnerVars, opsVars>>

NextMonitor ==
    \/ WrapStart
    \/ WrapCall
    \/ WrapStop
    \/ WrapJoin
    \/ WrapTerminate
    \/ WrapGet
    \/ WrapReturn
    \/ MonPoll
    \/ MonStop
    \/ MonPut
    \/ MonFlush
    \/ MonDie

SpecMonitor == InitMonitor /\ [][NextMonitor]_vars

-----------------------------------------------------------------------------
(* Claims about the step functions, checked under SpecFn.                  *)

C8_MaskPolarity ==
    (call.fn \in {"erase_by_mask", "apply_mask"} /\ call.done) =>
        /\ call.m = MaxSample => call.out = 0
        /\ call.m = 0 => call.out = call.a

\* what is left of an axis of length n from origin o on
Available(n, o) == IF o > n THEN 0 ELSE n - o

\* C9: crop containment: an explicit crop stays inside the buffer, its result
\* is no wider than min(width, W - left) and no higher than
\* min(height, H - top), an origin beyond the buffer leaving nothing, and a
\* request with width = height = 0 gives an empty buffer.
C9_CropContainment ==
    (call.fn \in CropFns /\ call.done) =>
        /\ call.win.y0 >= 0
        /\ call.win.x0 >= 0
        /\ call.win.h >= 0
        /\ call.win.w >= 0
        /\ call.win.y0 + call.win.h <= call.h
        /\ call.win.x0 + call.win.w <= call.w
        /\ call.win.w <= Min(call.width, Available(call.w, call.left))
        /\ call.win.h <= Min(call.height, Available(call.h, call.top))
        /\ (call.width = 0 /\ call.height = 0) => (call.win.w = 0 /\ call.win.h = 0)

\* C9 witness: a rectangle that sticks out of the buffer has been cut at its
\* edge
C9_Witness ==
    /\ call.fn = "crop"
    /\ call.done
    /\ call.left > 0
    /\ call.left + call.width > call.w
    /\ call.win.w > 0
    /\ call.win.w < call.width

-----------------------------------------------------------------------------
(* Claims about loading, checked under SpecModes.                          *)

\* C13: load errors: a source whose mode is outside the allow-list, and a
\* source path that does not exist, end the run at load with an exception:
\* no processor, no layout, no canvas, no step executed.
C13_LoadErrors ==
    LET f == fs[InputPath] IN
    (pc # "load" /\ (~f.exists \/ f.mode \notin ALLOWED_MODES)) =>
        /\ pc = "raised"
        /\ err.type = (IF f.exists THEN "ValueError" ELSE "FileNotFoundError")
        /\ ~Exists(base)
        /\ ~Exists(canvas)
        /\ ~Exists(layout)
        /\ heap = <<>>
        /\ execLog = <<>>
        /\ partial_processors = <<>>

\* C13 witness: the load of a palette image has raised
C13_Witness ==
    /\ pc = "raised"
    /\ fs[InputPath].exists
    /\ fs[InputPath].mode = "P"
    /\ err.type = "ValueError"
    /\ Len(config) > 0

\* C14: load normalisation: a source of mode RGB, RGBA, CMYK or P is loaded
\* into the canonical shape: P and RGB become 4-channel RGBA, CMYK becomes
\* 5-channel CMYKA, the added alpha is 255 everywhere, an RGBA source keeps
\* its alpha and the colour samples are the source's.
C14_LoadNormalisation ==
    LET f == fs[InputPath] IN
    (pc # "load" /\ f.exists /\ f.mode \in {"RGB", "RGBA", "CMYK", "P"}) =>
        /\ Exists(base)
        /\ base.mode = (IF f.mode = "CMYK" THEN "CMYKA" ELSE "RGBA")
        /\ loaded.h = f.arr.h
        /\ loaded.w = f.arr.w
        /\ loaded.c = (IF f.mode = "CMYK" THEN 5 ELSE 4)
        /\ f.mode \in {"RGB", "CMYK"} =>
              \A q \in DOMAIN loaded.px : loaded.px[q] = f.arr.px[q] \o <<MaxSample>>
        /\ f.mode = "RGBA" => loaded = f.arr

\* C15: load_layout returns a canvas and a layout of the layout image's size
\* and of the caller's channel count, profile and mode; the canvas is zero in
\* every channel until a piece is composited; the layout has the layout
\* image's alpha; the caller is left as loaded.
C15_LoadLayout ==
    Exists(canvas) =>
        LET lay == fs[LayoutPath].arr
            cv == Deref(heap, canvas.image)
            ly == Deref(heap, layout.image)
        IN  /\ cv.h = lay.h /\ cv.w = lay.w
            /\ ly.h = lay.h /\ ly.w = lay.w
            /\ cv.c = ChannelsOf(base.mode) /\ ly.c = ChannelsOf(base.mode)
            /\ loaded.c = ChannelsOf(base.mode)
            /\ canvas.mode = base.mode /\ layout.mode = base.mode
            /\ canvas.icc_profile = base.icc_profile
            /\ layout.icc_profile = base.icc_profile
            /\ \A q \in DOMAIN lay.px : Alpha(ly.px[q]) = Alpha(lay.px[q])
            /\ base.mode = "RGBA" => ly = lay
            /\ (cidx = 1 /\ pc # "done") => cv = Zeros(lay.h, lay.w, ChannelsOf(base.mode))
            /\ Deref(heap, base.image) = loaded
            /\ base.icc_profile = fs[InputPath].icc

\* C15 witness: a CMYKA processor has loaded a layout that is not blank
C15_Witness ==
    /\ pc = "partial"
    /\ base.mode = "CMYKA"
    /\ Exists(canvas)
    /\ Exists(layout)
    /\ \E q \in DOMAIN Deref(heap, layout.image).px :
          Alpha(Deref(heap, layout.image).px[q]) > 0

-----------------------------------------------------------------------------
(* Claims about the phases of a run, checked under Spec.                   *)

\* the canvas is as load_layout made it: every sample 0
CanvasAllZero ==
    LET cv == Deref(heap, canvas.image) IN cv = Zeros(cv.h, cv.w, cv.c)

\* C28: phase separation: no piece is composited before every partial has
\* finished its steps: during the per-partial phase the canvas is all zero
\* and no composite has been made, and when a step (or the building of a
\* partial's pipeline) raises, the run has ended with no composite made and
\* the canvas untouched.
C28_PhaseSeparation ==
    /\ pc \in {"partial", "step"} => (cidx = 1 /\ CanvasAllZero)
    /\ (pc = "raised" /\ err.partial > 0 /\ Len(partial_processors) < Len(config)) =>
          (cidx = 1 /\ CanvasAllZero)

\* C28 witness: the first partial has finished, a step of the second has
\* raised, and nothing has been composited
C28_Witness ==
    /\ pc = "raised"
    /\ err.partial = 2
    /\ err.step > 0
    /\ Len(partial_processors) = 1
    /\ \E q \in DOMAIN Deref(heap, partial_processors[1].proc.image).px :
          Alpha(Deref(heap, partial_processors[1].proc.image).px[q]) > 0
    /\ CanvasAllZero

-----------------------------------------------------------------------------
(* Claims about whole runs, checked under SpecModes.                       *)

\* the run is the crop-resize-place scenario: a fully opaque source, a fully
\* transparent layout, one partial [crop at (0, 0), resize]
IsScenario ==
    /\ fs[InputPath].exists
    /\ fs[InputPath].mode \in {"RGB", "RGBA"}
    /\ \A q \in DOMAIN fs[InputPath].arr.px :
          fs[InputPath].mode = "RGBA" => Alpha(fs[InputPath].arr.px[q]) = MaxSample
    /\ \A q \in DOMAIN fs[LayoutPath].arr.px : Alpha(fs[LayoutPath].arr.px[q]) = 0
    /\ Len(config) = 1
    /\ Len(config[1].steps) = 2
    /\ config[1].steps[1].action = "crop"
    /\ config[1].steps[1].data.top = 0
    /\ config[1].steps[1].data.left = 0
    /\ config[1].steps[2].action = "resize"

\* C18: end to end, RGBA: for a fully opaque source and one partial
\* [crop{0, 0, w, h}, resize{w2, h2}] at {top t, left l} whose block fits in a
\* fully transparent canvas and layout, the run returns a canvas whose alpha
\* is 255 exactly in the w2 x h2 rectangle with top-left corner (l, t) and 0
\* at every other pixel.
C18_ScenarioRGBA ==
    IsScenario =>
        /\ pc # "raised"
        /\ pc = "done" =>
              LET cv == Deref(heap, canvas.image)
                  t == config[1].location.top
                  l == config[1].location.left
                  w2 == config[1].steps[2].data.width
                  h2 == config[1].steps[2].data.height
              IN  \A q \in DOMAIN cv.px :
                     Alpha(cv.px[q]) =
                        IF /\ t < q[1] /\ q[1] <= t + h2
                           /\ l < q[2] /\ q[2] <= l + w2
                        THEN MaxSample ELSE 0

\* C18 witness: a 1 x 2 crop resized to 2 x 1 has been placed at (1, 1) and
\* the run has returned
C18_Witness ==
    /\ IsScenario
    /\ pc = "done"
    /\ config[1].steps[1].data.width = 1
    /\ config[1].steps[1].data.height = 2
    /\ config[1].steps[2].data.width = 2
    /\ config[1].steps[2].data.height = 1
    /\ config[1].location.top = 1
    /\ config[1].location.left = 1
    /\ Alpha(Deref(heap, canvas.image).px[2, 3]) = MaxSample

\* the run has a CMYK source and one partial whose only step is the mask
\* clear.png, of alpha 0 at every pixel
IsClearMaskRun ==
    /\ fs[InputPath].exists
    /\ fs[InputPath].mode = "CMYK"
    /\ Len(config) = 1
    /\ Len(config[1].steps) = 1
    /\ config[1].steps[1].action = "mask"
    /\ JoinPath(AssetDir, config[1].steps[1].data.path) = ClearMaskPath
    /\ \A q \in DOMAIN fs[ClearMaskPath].arr.px : Alpha(fs[ClearMaskPath].arr.px[q]) = 0

\* C19: end to end, CMYK: for a CMYK source and a partial whose only step is
\* a mask of alpha 0 at every pixel, the piece has alpha 0 at every pixel and
\* every C, M, Y and K sample handed to the encoder for it is 0.
C19_ScenarioCMYK ==
    (IsClearMaskRun /\ Len(partial_processors) = 1) =>
        LET piece == partial_processors[1].proc
            a == Deref(heap, piece.image)
            out == SaveData(heap, piece).arr
        IN  /\ \A q \in DOMAIN a.px : Alpha(a.px[q]) = 0
            /\ \A q \in DOMAIN out.px : \A k \in 1..4 : out.px[q][k] = 0

-----------------------------------------------------------------------------
(* Claims about the geometric steps, checked under SpecImg.                *)

\* the positions of the nonzero-alpha pixels of array a
NonZero(a) == {q \in DOMAIN a.px : Alpha(a.px[q]) > 0}

\* array a shows rows top..bottom and columns left..right of array b
IsWindowOf(a, b, top, bottom, left, right) ==
    /\ a.h = bottom - top + 1
    /\ a.w = right - left + 1
    /\ \A q \in DOMAIN a.px : a.px[q] = b.px[q[1] + top - 1, q[2] + left - 1]

\* C23: automatic crop: the result is exactly the tight bounding box of the
\* pixels with nonzero alpha (each border row and column holds such a pixel,
\* none is cut off); when no pixel has nonzero alpha the call does not raise
\* and the result is an empty buffer.
C23_AutoCrop ==
    lastOp.op = "crop_auto" =>
        LET b == lastOp.before
            a == Deref(heap, base.image)
        IN  /\ lastOp.err = "none"
            /\ IF NonZero(b) = {}
               THEN a.h * a.w = 0
               ELSE \E top, bottom \in Range(b.h), left, right \in Range(b.w) :
                       /\ IsWindowOf(a, b, top, bottom, left, right)
                       /\ \A q \in NonZero(b) : /\ top <= q[1] /\ q[1] <= bottom
                                                /\ left <= q[2] /\ q[2] <= right
                       /\ \E q \in NonZero(b) : q[1] = top
                       /\ \E q \in NonZero(b) : q[1] = bottom
                       /\ \E q \in NonZero(b) : q[2] = left
                       /\ \E q \in NonZero(b) : q[2] = right

\* every pixel of array b appears, all channels together, in array a
EveryPixelAppears(a, b) ==
    \A q \in DOMAIN b.px : \E r \in DOMAIN a.px : a.px[r] = b.px[q]

\* C24: rotate expands instead of cropping: rotating a W x H buffer by a
\* multiple of 90 degrees gives an H x W buffer (odd multiples) or a W x H
\* buffer (even multiples) in which every source pixel appears with all its
\* channels; a rotation by 0 degrees returns the input pixel for pixel.
C24_RotateExpands ==
    (lastOp.op \in {"rotate", "rotate_image", "rotate_img"} /\ lastOp.err = "none") =>
        LET b == lastOp.before
            a == Deref(heap, base.image)
            odd == (lastOp.x \div 90) % 2 = 1
        IN  /\ a.h = IF odd THEN b.w ELSE b.h
            /\ a.w = IF odd THEN b.h ELSE b.w
            /\ EveryPixelAppears(a, b)
            /\ lastOp.x = 0 => a = b

\* C25: resize keeps alpha hard-edged: after resize(width, height) the
\* buffer is exactly width x height and every alpha value in it is the alpha
\* value of some source pixel, so an alpha plane of 0 and 255 only stays so.
C25_ResizeHardAlpha ==
    (lastOp.op \in {"resize", "resize_image"} /\ lastOp.err = "none") =>
        LET b == lastOp.before
            a == Deref(heap, base.image)
        IN  /\ a.w = lastOp.x
            /\ a.h = lastOp.y
            /\ \A r \in DOMAIN a.px : \E q \in DOMAIN b.px :
                  Alpha(a.px[r]) = Alpha(b.px[q])

-----------------------------------------------------------------------------
(* Claims about writing files, checked under SpecSave.                     *)

\* the call has returned or raised
Terminated == call.at \in {"returned", "raised"}

\* C26: encoding-failure retry: in save_image_with_icc called with a profile,
\* when the writer rejects the first attempt exactly one more attempt is
\* made, without the profile; the call returns if that attempt succeeds and
\* raises if it fails; no call makes more than two attempts, and none
\* returns without a successful attempt.
C26_EncodingRetry ==
    (call.fn = "save_image_with_icc" /\ call.icc /\ Terminated) =>
        /\ Len(call.attempts) \in {1, 2}
        /\ call.attempts[1].outcome # "ok" =>
              /\ Len(call.attempts) = 2
              /\ "icc_profile" \notin call.attempts[2].kwargs
              /\ (call.attempts[2].outcome = "ok" <=> call.at = "returned")
        /\ call.at = "returned" => call.attempts[Len(call.attempts)].outcome = "ok"

-----------------------------------------------------------------------------
(* Claims about debug runs, checked under SpecDebug.                       *)

\* C29: debug snapshots do not influence the result: a run with debug=True
\* goes the way the run with debug=False goes: the snapshot save after a step
\* never ends the run with an exception of its own, and it leaves the piece
\* being processed as the step left it.
C29_DebugTransparent ==
    (debug /\ lastOp.op = "save") =>
        /\ lastOp.err = "none"
        /\ (pc = "step" /\ lastOp.x = pidx /\ lastOp.y = sidx - 1) =>
              Deref(heap, proc.image) = lastOp.before

-----------------------------------------------------------------------------
(* Claims about the resource monitor, checked under SpecMonitor.           *)

\* C30: the resource monitor does not outlive or alter the wrapped call:
\* when the wrapper exits, the function having returned or raised, the stop
\* event has been set and the monitor process is no longer running, and the
\* wrapper hands over the function's own result or exception, in every
\* interleaving, also when the monitor could not deliver its samples.
C30_MonitorContained ==
    call.parent \in {"returned", "raised"} =>
        /\ call.stop
        /\ ~MonitorRunning(call)
        /\ call.parent = call.outcome
        /\ call.result = call.value

====
